---------------------------- MODULE Spec2Model ----------------------------
(***************************************************************************)
(* pyGAPS: the Whittaker isosteric-enthalpy calculation                    *)
(* (characterisation/enth_sorp_whittaker.py, characterisation/whittaker.py)*)
(* and the numerically inverted isotherm models (modelling/fhvst.py,       *)
(* wvst.py, tstoth.py).                                                    *)
(*                                                                         *)
(* Floating point values are held exactly.  A number is one of             *)
(*   [k |-> "fin", n, d]     the rational n/d, d > 0, in lowest terms      *)
(*   [k |-> "pow", c, b, e]  c * b^e, with c, b, e rationals, b > 0 and    *)
(*                           b^e irrational                                *)
(*   [k |-> "xexp", c, a]    c * e^a, with c, a rationals, both not 0      *)
(*   [k |-> "nz", s]         a finite non-zero difference of sign s        *)
(*   [k |-> "nan"], [k |-> "pinf"], [k |-> "ninf"]                         *)
(* and the operations follow numpy's float64 rules (the loadings are       *)
(* numpy.float64, as numpy.linspace produces them): division by zero gives *)
(* an infinity or NaN, NaN compares false with everything, x**0 is 1.      *)
(* An energy is (R*lnT*ln(arg) + R*rT + j) / per, with R the gas constant  *)
(* kept as a symbol, or one of the three special values.                   *)
(***************************************************************************)
EXTENDS Integers, Sequences, FiniteSets, TLC

\* ------------------------------------------------------------ numbers

Abs(x) == IF x < 0 THEN -x ELSE x

RECURSIVE GCD(_, _)
GCD(a, b) == IF b = 0 THEN a ELSE GCD(b, a % b)

Fin(n, d) ==
    LET g == GCD(Abs(n), d)
    IN  [k |-> "fin", n |-> n \div g, d |-> d \div g]

NaN == [k |-> "nan"]
PInf == [k |-> "pinf"]
NInf == [k |-> "ninf"]
Zero == Fin(0, 1)
One == Fin(1, 1)

IsFin(x) == x.k = "fin"
IsNaN(x) == x.k = "nan"
Sign(x) ==
    CASE x.k = "fin" -> (IF x.n > 0 THEN 1 ELSE IF x.n < 0 THEN -1 ELSE 0)
      [] x.k \in {"pow", "xexp"} -> (IF x.c.n > 0 THEN 1 ELSE IF x.c.n < 0 THEN -1 ELSE 0)
      [] x.k = "nz" -> x.s
      [] x.k = "pinf" -> 1
      [] x.k = "ninf" -> -1
      [] OTHER -> 0

\* rationals, cross-reduced before multiplying
QMul(x, y) ==
    LET g1 == GCD(Abs(x.n), y.d)
        g2 == GCD(Abs(y.n), x.d)
    IN  Fin((x.n \div g1) * (y.n \div g2), (x.d \div g2) * (y.d \div g1))
QInv(x) == IF x.n > 0 THEN Fin(x.d, x.n) ELSE Fin(-x.d, -x.n)
QAdd(x, y) ==
    LET g == GCD(x.d, y.d)
    IN  Fin(x.n * (y.d \div g) + y.n * (x.d \div g), (x.d \div g) * y.d)
QNeg(x) == [x EXCEPT !.n = -x.n]
QLess(x, y) ==
    LET g == GCD(x.d, y.d)
    IN  x.n * (y.d \div g) < y.n * (x.d \div g)

RECURSIVE IntPow(_, _)
IntPow(a, m) == IF m = 0 THEN 1 ELSE a * IntPow(a, m - 1)

\* e^(u/v) < p/q for u, v, p, q > 0, decided from 2 < e < 3 and, where that is
\* too coarse, from 19/7 < e < 11/4; a comparison neither pair decides has no value
ExpPowerBelow(u, v, p, q) ==
    IF IntPow(3, u) * IntPow(q, v) <= IntPow(p, v) THEN TRUE
    ELSE IF IntPow(2, u) * IntPow(q, v) >= IntPow(p, v) THEN FALSE
    ELSE IF IntPow(11, u) * IntPow(q, v) <= IntPow(4, u) * IntPow(p, v) THEN TRUE
    ELSE IF IntPow(19, u) * IntPow(q, v) >= IntPow(7, u) * IntPow(p, v) THEN FALSE
    ELSE CHOOSE b \in {} : TRUE

\* e^a < r for rationals a and r > 0
ExpBelow(a, r) ==
    IF a.n = 0 THEN r.n > r.d
    ELSE IF a.n > 0 THEN ExpPowerBelow(a.n, a.d, r.n, r.d)
    ELSE ~ExpPowerBelow(-a.n, a.d, r.d, r.n)

\* the coefficient and the exponent of c * e^a, a rational being c * e^0
Coef(x) == IF IsFin(x) THEN x ELSE x.c
Expo(x) == IF IsFin(x) THEN [k |-> "fin", n |-> 0, d |-> 1] ELSE x.a

\* x < y for x, y rationals or of the form c * e^a
ExpLess(x, y) ==
    LET sx == Sign(x)
        sy == Sign(y)
        ratio(c1, c2) == [k |-> "fin", n |-> Abs(c2.n) * c1.d, d |-> c2.d * Abs(c1.n)]
        \* for negative values |y| < |x| is compared
        lo == IF sx > 0 THEN x ELSE y
        hi == IF sx > 0 THEN y ELSE x
    IN  IF sx # sy THEN sx < sy
        ELSE IF sx = 0 THEN FALSE
        ELSE IF Expo(x) = Expo(y) THEN QLess(Coef(x), Coef(y))
        ELSE ExpBelow(QAdd(Expo(lo), QNeg(Expo(hi))), ratio(Coef(lo), Coef(hi)))

\* float comparison: false as soon as one side is NaN
Lt(x, y) ==
    CASE IsNaN(x) \/ IsNaN(y) -> FALSE
      [] x.k = "ninf" -> y.k # "ninf"
      [] y.k = "pinf" -> x.k # "pinf"
      [] x.k = "pinf" \/ y.k = "ninf" -> FALSE
      [] x.k = "xexp" \/ y.k = "xexp" -> ExpLess(x, y)
      [] OTHER -> QLess(x, y)
Gt(x, y) == Lt(y, x)

Mul(x, y) ==
    CASE IsNaN(x) \/ IsNaN(y) -> NaN
      [] IsFin(x) /\ IsFin(y) -> QMul(x, y)
      [] IsFin(x) /\ y.k = "pow" ->
            (IF x.n = 0 THEN Zero ELSE [y EXCEPT !.c = QMul(x, y.c)])
      [] x.k = "pow" /\ IsFin(y) ->
            (IF y.n = 0 THEN Zero ELSE [x EXCEPT !.c = QMul(y, x.c)])
      [] x.k = "pow" /\ y.k = "pow" -> NaN
      [] IsFin(x) /\ y.k = "xexp" ->
            (IF x.n = 0 THEN Zero ELSE [y EXCEPT !.c = QMul(x, y.c)])
      [] x.k = "xexp" /\ IsFin(y) ->
            (IF y.n = 0 THEN Zero ELSE [x EXCEPT !.c = QMul(y, x.c)])
      [] OTHER -> \* an infinity is involved
            (IF Sign(x) * Sign(y) > 0 THEN PInf
             ELSE IF Sign(x) * Sign(y) < 0 THEN NInf ELSE NaN)

Div(x, y) ==
    CASE IsNaN(x) \/ IsNaN(y) -> NaN
      [] IsFin(x) /\ IsFin(y) ->
            (IF y.n # 0 THEN QMul(x, QInv(y))
             ELSE IF x.n > 0 THEN PInf
             ELSE IF x.n < 0 THEN NInf ELSE NaN)
      [] IsFin(x) /\ y.k = "pow" ->
            (IF x.n = 0 THEN Zero
             ELSE [k |-> "pow", c |-> QMul(x, QInv(y.c)), b |-> y.b, e |-> QNeg(y.e)])
      [] IsFin(y) /\ ~IsFin(x) ->  \* infinity / finite
            (IF Sign(x) * (IF y.n < 0 THEN -1 ELSE 1) > 0 THEN PInf ELSE NInf)
      [] IsFin(x) -> Zero          \* finite / infinity
      [] OTHER -> NaN

Sub(x, y) ==
    CASE IsNaN(x) \/ IsNaN(y) -> NaN
      [] IsFin(x) /\ IsFin(y) -> QAdd(x, QNeg(y))
      [] {x.k, y.k} \in {{"xexp"}, {"xexp", "fin"}} ->
            (IF x = y THEN Zero ELSE [k |-> "nz", s |-> IF ExpLess(x, y) THEN -1 ELSE 1])
      [] x.k = "xexp" -> (IF y.k = "pinf" THEN NInf ELSE PInf)
      [] y.k = "xexp" -> x
      [] IsFin(x) -> (IF y.k = "pinf" THEN NInf ELSE PInf)
      [] IsFin(y) -> x
      [] OTHER -> (IF x.k = y.k THEN NaN ELSE x)

\* the largest r in lo..hi with r*r <= a
RECURSIVE SqrtSearch(_, _, _)
SqrtSearch(a, lo, hi) ==
    IF lo >= hi THEN lo
    ELSE LET mid == (lo + hi + 1) \div 2
         IN  IF mid * mid <= a THEN SqrtSearch(a, mid, hi)
             ELSE SqrtSearch(a, lo, mid - 1)
ISqrt(a) == SqrtSearch(a, 0, IF a < 46340 THEN a ELSE 46340)
IsSquare(a) == ISqrt(a) * ISqrt(a) = a

\* x ** e for a number x and a rational exponent e = m or m/2
Pow(x, e) ==
    CASE e.k = "pinf" ->   \* a finite x > 0 to the power +inf
            (IF QLess(One, x) THEN PInf ELSE IF x = One THEN One ELSE Zero)
      [] e.n = 0 -> One
      [] IsNaN(x) -> NaN
      [] x.k = "pinf" -> (IF e.n > 0 THEN PInf ELSE Zero)
      [] x.k = "ninf" -> (IF e.n < 0 THEN Zero ELSE IF e.d = 1 /\ e.n % 2 = 1 THEN NInf ELSE PInf)
      [] x.k = "pow" -> NaN
      [] e.d = 1 ->
            (IF e.n > 0 THEN Fin(IntPow(x.n, e.n), IntPow(x.d, e.n))
             ELSE IF x.n = 0 THEN PInf
             ELSE LET y == QInv(x) IN Fin(IntPow(y.n, -e.n), IntPow(y.d, -e.n)))
      [] x.n < 0 -> NaN
      [] x.n = 0 -> (IF e.n > 0 THEN Zero ELSE PInf)
      [] OTHER ->
            LET y == IF e.n > 0 THEN x ELSE QInv(x)
                m == Abs(e.n)
            IN  IF e.d = 2 /\ IsSquare(y.n) /\ IsSquare(y.d)
                THEN Fin(IntPow(ISqrt(y.n), m), IntPow(ISqrt(y.d), m))
                ELSE [k |-> "pow", c |-> One, b |-> x, e |-> e]

\* ------------------------------------------------------------ energies

\* c * ln(x) for a finite c > 0 (numpy.log: -inf at 0, NaN below 0)
ScaledLog(c, x) ==
    CASE IsNaN(x) \/ x.k = "ninf" -> NaN
      [] x.k = "pinf" -> PInf
      [] Sign(x) < 0 -> NaN
      [] Sign(x) = 0 -> NInf
      [] OTHER -> [k |-> "e", lnT |-> c, arg |-> x, rT |-> Zero, j |-> Zero, per |-> 1]

IsEnergy(h) == h.k = "e"
AddJoule(h, x) ==
    CASE IsNaN(h) \/ IsNaN(x) -> NaN
      [] IsEnergy(h) /\ IsFin(x) -> [h EXCEPT !.j = QAdd(@, x)]
      [] IsEnergy(h) -> x
      [] IsFin(x) \/ x = h -> h
      [] OTHER -> NaN
AddRT(h, c) == IF IsEnergy(h) THEN [h EXCEPT !.rT = QAdd(@, c)] ELSE h
DivEnergy(h, m) == IF IsEnergy(h) THEN [h EXCEPT !.per = @ * m] ELSE h


\* ------------------------------------------------------------ inputs

MaxLen == 2
GridPoints == 100

Range(s) == {s[i] : i \in DOMAIN s}
RECURSIVE SeqsUpTo(_, _)
SeqsUpTo(S, m) ==
    IF m = 0 THEN {<<>>}
    ELSE LET shorter == SeqsUpTo(S, m - 1)
         IN  shorter \cup {Append(s, x) : s \in {q \in shorter : Len(q) = m - 1}, x \in S}

FunctionNames == {"enthalpy_sorption_whittaker", "whittaker_enthalpy"}
ModelNames == {"Langmuir", "Toth", "Sips"}
\* fitted parameters: the Langmuir model stores no exponent, unless a caller put one
ParamSets ==
    {[n_m |-> Fin(5, 1), K |-> Fin(2, 1)]} \cup
    {[n_m |-> Fin(5, 1), K |-> Fin(2, 1), t |-> Fin(tt, 1)] : tt \in {1, 2}}
Models ==
    {m \in {[name |-> nm, params |-> ps, loading_range |-> <<Fin(1, 1), Fin(4, 1)>>] :
                nm \in ModelNames, ps \in ParamSets} :
        m.name = "Langmuir" \/ "t" \in DOMAIN m.params}
Temperatures == {Fin(300, 1)}
LoadingValues == {Fin(3, 1), Fin(5, 1), Fin(6, 1)}

\* the adsorbate's thermodynamic backend: the critical and triple points, and a
\* saturation pressure that exists (sat.ok) or raises CalculationError
Adsorbates ==
    {[p_critical |-> Fin(6, 1), p_triple |-> Fin(2, 1), t_critical |-> Fin(150, 1),
      sat |-> s] : s \in {[ok |-> TRUE, p |-> Fin(3000, 1)], [ok |-> FALSE]}}
enthalpy_vaporisation(press) == Sub(Fin(12, 1), press)

\* what isotherm.pressure_at can return, in Pa: below, at and above the triple
\* and critical points of Adsorbates, and the non-finite values
PressureValues ==
    {Fin(1, 1), Fin(2, 1), Fin(4, 1), Fin(6, 1), Fin(7, 1), NaN, PInf, NInf}
\* on the default grid the isotherm is a step profile rising with the loading
GridProfiles ==
    {[lo |-> Fin(1, 1), hi |-> Fin(4, 1), over |-> NaN],
     [lo |-> Fin(2, 1), hi |-> Fin(3, 1), over |-> Fin(7, 1)],
     [lo |-> Fin(3, 2), hi |-> Fin(7, 2), over |-> NaN],
     [lo |-> Fin(5, 1), hi |-> Fin(5, 1), over |-> PInf]}
StepProfile(prof, n) ==
    IF QLess(n, prof.lo) THEN Fin(1, 1)
    ELSE IF QLess(prof.hi, n) THEN prof.over ELSE Fin(4, 1)

\* numpy.linspace(start, stop, num)
linspace(start, stop, num) ==
    LET step == Div(Sub(stop, start), Fin(num - 1, 1))
    IN  [i \in 1..num |-> QAdd(start, QMul(Fin(i - 1, 1), step))]

NoLoading == [k |-> "None"]
ListOf(s) == [k |-> "list", v |-> s]


\* ------------------------------------------------------------ state

VARIABLES
    solver,         \* one call of a model's numerically inverted direction
    mcall,          \* one call of another method of a model: variant, params, arguments, result
    loading_arg,    \* the loading argument as the caller passed it: None or a list
    fn,             \* which of the two implementations is running
    isotherm,       \* the ModelIsotherm argument: model, temperature, adsorbate, pressure_at
    loading,        \* the local variable loading
    pc,             \* position in the function body
    lv,             \* the scalar locals: n_m, K, t, b, p_c, p_t, p_sat, first_bracket, n
    pressures,      \* whittaker_enthalpy's looked-up pressures
    loading_final,  \* the retained loadings
    whittaker_enth, \* their enthalpies
    calls,          \* every parameter read and callback invocation so far, in order
    warnings,       \* logger.warning calls so far
    steps,          \* per loop iteration: index, loading, pressure found and used, kept
    outcome,        \* running, raised (exc) or returned (result)
    history,        \* the earlier Whittaker calls of this process: inputs and outcome
    db,             \* the sqlite database files, the module lists and one database call
    util            \* one call of a python_utilities or parsing/json function

wvars == <<loading_arg, fn, isotherm, loading, pc, lv, pressures, loading_final,
           whittaker_enth, calls, warnings, steps, outcome>>
vars == <<solver, mcall, wvars, history, db, util>>
\* what a call of the Whittaker functions cannot touch
wothers == <<solver, mcall, history, db, util>>
\* what a call of a numeric inverse cannot touch
sothers == <<mcall, wvars, history, db, util>>
\* what a call of another model method cannot touch
mothers == <<solver, wvars, history, db, util>>
\* what a database call cannot touch
dothers == <<solver, mcall, wvars, history, util>>
\* what a call of a utility cannot touch
uothers == <<solver, mcall, wvars, history, db>>

Unset == [k |-> "unset"]
Running == [k |-> "running"]
Raised(e) == [k |-> "raised", exc |-> e]
Returned(r) == [k |-> "returned", result |-> r]

\* ------------------------------------------------------------ the computation

AcceptedModelsAndSips == {"Langmuir", "Toth", "Sips"}
\* lines 88 / 77: the model names the method accepts
AcceptedModels == {"Langmuir", "Toth"}

\* line 93: the default loading grid (enthalpy_sorption_whittaker only)
DefaultLoading(model) ==
    linspace(model.loading_range[1], model.loading_range[2], GridPoints)

ModelExponentStored(model) ==
    IF "t" \in DOMAIN model.params THEN model.params.t ELSE One
\* lines 101-104: the exponent, 1 for Langmuir
ModelExponent(model) ==
    IF model.name = "Langmuir" THEN One ELSE model.params.t

\* line 105: b = 1 / (K**t)
AffinityB(K, t) == Div(One, Pow(K, t))

\* line 120: the pseudo-saturation pressure
PseudoSaturation(p_c, T, T_c) == Mul(p_c, Pow(Div(T, T_c), Fin(2, 1)))

ToKiloPascalUnconverted(p_sat) == p_sat
\* line 125: p_sat in kPa
ToKiloPascal(p_sat) == Div(p_sat, Fin(1000, 1))

\* line 126: first_bracket = p_sat / (b**(1 / t))
FirstBracket(p_sat_kPa, b, t) == Div(p_sat_kPa, Pow(b, Div(One, t)))

\* lines 130-133: pressures under the triple point are raised to it
\* (enthalpy_sorption_whittaker only)
ClampToTriple(p, p_t) == IF Lt(p, p_t) THEN p_t ELSE p

\* line 136 / whittaker.py line 127: the loading is skipped
Skipped(f, p, p_c, p_t) ==
    IF f = "enthalpy_sorption_whittaker"
    THEN Gt(p, p_c) \/ IsNaN(p)
    ELSE Gt(p, p_c) \/ Lt(p, p_t) \/ IsNaN(p)

\* line 140: enthalpy of vaporisation, in J
LambdaJoule(p) == Mul(enthalpy_vaporisation(p), Fin(1000, 1))

\* lines 142-144: the second bracket of d_lambda
SecondBracket(n, n_m, t) ==
    LET theta == Div(n, n_m)
        theta_t == Pow(theta, t)
    IN  Pow(Div(theta_t, Sub(One, theta_t)), Div(Sub(t, One), t))

\* lines 145-147: h_st = RT*log(first*second) + lambda_p + RT, in J
IsostericJoule(T, first_bracket, second_bracket, lambda_p) ==
    AddRT(AddJoule(ScaledLog(T, Mul(first_bracket, second_bracket)), lambda_p), T)

RetainAlways(list, x, skip) == Append(list, x)
\* lines 136-137 and 149-150: a skipped loading is appended to neither list
Retain(list, x, skip) == IF skip THEN list ELSE Append(list, x)

\* line 150: the value appended, in kJ (whittaker_enthalpy appends h_st as it is)
Appended(f, h_st) ==
    IF f = "enthalpy_sorption_whittaker" THEN DivEnergy(h_st, 1000) ELSE h_st

\* whittaker.py line 143: a Python list divided by an int
ListTrueDiv(xs, m) == Raised("TypeError")

\* lines 161-164 / whittaker.py 143-148
Finish(f, lf, we) ==
    IF f = "enthalpy_sorption_whittaker"
    THEN Returned([loading |-> lf, enthalpy_sorption |-> we])
    ELSE LET q == ListTrueDiv(we, 1000)
         IN  IF q.k = "raised" THEN q
             ELSE Returned([loading |-> lf, whittaker_enthalpy |-> q.v])

Call(f) == [f |-> f]
ReadParam(key) == [f |-> "params", key |-> key]


\* ------------------------------------------------------------ one call

PressureLookups(m, l) ==
    IF l = NoLoading
    THEN {[n \in Range(DefaultLoading(m)) |-> StepProfile(prof, n)] : prof \in GridProfiles}
    ELSE [Range(l.v) -> PressureValues]

Isotherms(l) ==
    UNION {{[model |-> m, temperature |-> T, adsorbate |-> a, pressure_at |-> pa] :
                T \in Temperatures, a \in Adsorbates, pa \in PressureLookups(m, l)} :
            m \in Models}

NoSolver == [pc |-> "idle"]
NoCall == [pc |-> "idle"]
NoDatabase == [pc |-> "idle"]

NoLocals ==
    [n_m |-> Unset, K |-> Unset, t |-> Unset, b |-> Unset, p_c |-> Unset,
     p_t |-> Unset, p_sat |-> Unset, first_bracket |-> Unset, i |-> 0]

Init ==
    /\ fn \in FunctionNames
    /\ loading_arg \in {NoLoading} \cup {ListOf(q) : q \in SeqsUpTo(LoadingValues, MaxLen)}
    /\ loading = loading_arg
    /\ isotherm \in Isotherms(loading_arg)
    /\ solver = NoSolver
    /\ mcall = NoCall
    /\ history = <<>>
    /\ db = NoDatabase
    /\ util = NoCall
    /\ pc = "check"
    /\ lv = NoLocals
    /\ pressures = <<>>
    /\ loading_final = <<>>
    /\ whittaker_enth = <<>>
    /\ calls = <<>>
    /\ warnings = 0
    /\ steps = <<>>
    /\ outcome = Running

\* lines 88-93 / whittaker.py 77-81
CheckModel ==
    /\ pc = "check"
    /\ IF isotherm.model.name \notin AcceptedModels
       THEN /\ outcome' = Raised("ParameterError")
            /\ pc' = "done"
            /\ UNCHANGED loading
       ELSE /\ outcome' = outcome
            /\ pc' = "params"
            /\ loading' = IF fn = "enthalpy_sorption_whittaker" /\ loading = NoLoading
                          THEN ListOf(DefaultLoading(isotherm.model))
                          ELSE loading
    /\ UNCHANGED <<wothers, loading_arg, fn, isotherm, lv, pressures, loading_final, whittaker_enth,
                   calls, warnings, steps>>

\* lines 96-105 / whittaker.py 84-93
ReadParams ==
    /\ pc = "params"
    /\ LET t == ModelExponent(isotherm.model)
           K == isotherm.model.params.K
       IN  /\ lv' = [lv EXCEPT !.n_m = isotherm.model.params.n_m, !.K = K, !.t = t,
                               !.b = AffinityB(K, t)]
           /\ calls' = calls \o <<ReadParam("n_m"), ReadParam("K")>> \o
                       (IF isotherm.model.name = "Langmuir" THEN <<>>
                        ELSE <<ReadParam("t")>>)
    /\ pc' = "critical"
    /\ UNCHANGED <<wothers, loading_arg, fn, isotherm, loading, pressures, loading_final, whittaker_enth,
                   warnings, steps, outcome>>

\* lines 108-109 / whittaker.py 96-97
CriticalAndTriple ==
    /\ pc = "critical"
    /\ lv' = [lv EXCEPT !.p_c = isotherm.adsorbate.p_critical,
                        !.p_t = isotherm.adsorbate.p_triple]
    /\ calls' = calls \o <<Call("p_critical"), Call("p_triple")>>
    /\ pc' = "saturation"
    /\ UNCHANGED <<wothers, loading_arg, fn, isotherm, loading, pressures, loading_final, whittaker_enth,
                   warnings, steps, outcome>>

AfterSaturation == IF fn = "enthalpy_sorption_whittaker" THEN "enter" ELSE "pressures"

\* lines 110-112 / whittaker.py 98-100: the callback returns, or raises CalculationError
SaturationPressure ==
    /\ pc = "saturation"
    /\ calls' = Append(calls, [f |-> "saturation_pressure", temp |-> isotherm.temperature])
    /\ IF isotherm.adsorbate.sat.ok
       THEN /\ lv' = [lv EXCEPT !.p_sat = isotherm.adsorbate.sat.p]
            /\ pc' = AfterSaturation
       ELSE /\ lv' = lv
            /\ pc' = "except"
    /\ UNCHANGED <<wothers, loading_arg, fn, isotherm, loading, pressures, loading_final, whittaker_enth,
                   warnings, steps, outcome>>

\* lines 112-120 / whittaker.py 100-108: the except CalculationError block
PseudoSaturationPressure ==
    /\ pc = "except"
    /\ warnings' = warnings + 1
    /\ calls' = Append(calls, Call("t_critical"))
    /\ lv' = [lv EXCEPT !.p_sat = PseudoSaturation(lv.p_c, isotherm.temperature,
                                                   isotherm.adsorbate.t_critical)]
    /\ pc' = AfterSaturation
    /\ UNCHANGED <<wothers, loading_arg, fn, isotherm, loading, pressures, loading_final, whittaker_enth,
                   steps, outcome>>

\* whittaker.py 111-115 and the zip of line 124: one vectorised lookup; with no
\* loading given, pressure_at(None) or zip(None, ...) raises
LookupPressures ==
    /\ pc = "pressures"
    /\ IF loading = NoLoading
       THEN /\ calls' = Append(calls, [f |-> "pressure_at", none |-> TRUE])
            /\ outcome' = Raised("TypeError")
            /\ pc' = "done"
            /\ UNCHANGED pressures
       ELSE /\ calls' = Append(calls, [f |-> "pressure_at", loadings |-> loading.v])
            /\ pressures' = [i \in DOMAIN loading.v |-> isotherm.pressure_at[loading.v[i]]]
            /\ pc' = "enter"
            /\ UNCHANGED outcome
    /\ UNCHANGED <<wothers, loading_arg, fn, isotherm, loading, lv, loading_final, whittaker_enth,
                   warnings, steps>>

\* the lists outlive the call
KeptList(old) == old
\* lines 122-123: loading_final = [] and whittaker_enth = [], a new list per call
\* whatever the name was bound to before
NewList(old) == <<>>

\* lines 122-126 / whittaker.py 116-123
EnterLoop ==
    /\ pc = "enter"
    /\ loading_final' = NewList(loading_final)
    /\ whittaker_enth' = NewList(whittaker_enth)
    /\ LET p_sat == ToKiloPascal(lv.p_sat)
       IN  lv' = [lv EXCEPT !.p_sat = p_sat,
                            !.first_bracket = FirstBracket(p_sat, lv.b, lv.t),
                            !.i = 1]
    /\ pc' = "loop"
    /\ UNCHANGED <<wothers, loading_arg, fn, isotherm, loading, pressures, calls, warnings, steps, outcome>>

\* lines 127-150 / whittaker.py 124-141: one pass of the loop body
Iterate ==
    /\ pc = "loop"
    /\ lv.i <= Len(loading.v)
    /\ LET n == loading.v[lv.i]
           found == IF fn = "enthalpy_sorption_whittaker"
                    THEN isotherm.pressure_at[n] ELSE pressures[lv.i]
           p == IF fn = "enthalpy_sorption_whittaker"
                THEN ClampToTriple(found, lv.p_t) ELSE found
           looked == IF fn = "enthalpy_sorption_whittaker"
                     THEN <<[f |-> "pressure_at", loading |-> n]>> ELSE <<>>
           skip == Skipped(fn, p, lv.p_c, lv.p_t)
           h_st == IsostericJoule(isotherm.temperature, lv.first_bracket,
                                  SecondBracket(n, lv.n_m, lv.t), LambdaJoule(p))
       IN  /\ steps' = Append(steps, [i |-> lv.i, n |-> n, found |-> found,
                                      used |-> p, kept |-> ~skip])
           /\ calls' = calls \o looked \o
                       (IF skip THEN <<>>
                        ELSE <<[f |-> "enthalpy_vaporisation", press |-> p]>>)
           /\ loading_final' = Retain(loading_final, n, skip)
           /\ whittaker_enth' = Retain(whittaker_enth, Appended(fn, h_st), skip)
    /\ lv' = [lv EXCEPT !.i = @ + 1]
    /\ UNCHANGED <<wothers, loading_arg, fn, isotherm, loading, pc, pressures, warnings, outcome>>

\* lines 152-164 / whittaker.py 143-148: the loop is over
Return ==
    /\ pc = "loop"
    /\ lv.i > Len(loading.v)
    /\ outcome' = Finish(fn, loading_final, whittaker_enth)
    /\ pc' = "done"
    /\ UNCHANGED <<wothers, loading_arg, fn, isotherm, loading, lv, pressures, loading_final, whittaker_enth,
                   calls, warnings, steps>>

Next ==
    \/ CheckModel
    \/ ReadParams
    \/ CriticalAndTriple
    \/ SaturationPressure
    \/ PseudoSaturationPressure
    \/ LookupPressures
    \/ EnterLoop
    \/ Iterate
    \/ Return

Spec == Init /\ [][Next]_vars

\* ---- several calls in one process ----
\* The functions are module-level and the module holds no mutable object
\* (lines 1-8: imports only), so a later call starts from its arguments alone.
\* What the finished call left in its frame is kept in the model as stale
\* values, none of which the code reads before assigning it.
MaxCalls == 3
PureLoadings == {NoLoading, ListOf(<<Fin(3, 1), Fin(5, 1)>>)}
\* a call on another isotherm, made between two calls on the first one
OtherIsotherm ==
    [model |-> [name |-> "Toth",
                params |-> [n_m |-> Fin(5, 1), K |-> Fin(2, 1), t |-> Fin(2, 1)],
                loading_range |-> <<Fin(1, 1), Fin(4, 1)>>],
     temperature |-> Fin(300, 1),
     adsorbate |-> [p_critical |-> Fin(6, 1), p_triple |-> Fin(2, 1),
                    t_critical |-> Fin(150, 1), sat |-> [ok |-> TRUE, p |-> Fin(3000, 1)]],
     pressure_at |-> [n \in {Fin(6, 1)} |-> Fin(4, 1)]]
OtherInputs ==
    {[fn |-> "enthalpy_sorption_whittaker", isotherm |-> OtherIsotherm,
      loading |-> ListOf(<<Fin(6, 1)>>)]}
Inputs == [fn |-> fn, isotherm |-> isotherm, loading |-> loading_arg]

InitPure ==
    /\ fn \in FunctionNames
    /\ loading_arg \in PureLoadings
    /\ loading = loading_arg
    /\ isotherm \in Isotherms(loading_arg)
    /\ solver = NoSolver
    /\ mcall = NoCall
    /\ history = <<>>
    /\ db = NoDatabase
    /\ util = NoCall
    /\ pc = "check"
    /\ lv = NoLocals
    /\ pressures = <<>>
    /\ loading_final = <<>>
    /\ whittaker_enth = <<>>
    /\ calls = <<>>
    /\ warnings = 0
    /\ steps = <<>>
    /\ outcome = Running

\* lines 11-15 / whittaker.py: the caller calls again after a call has ended,
\* with the first call's arguments or with other ones; the parameters are bound
\* anew, the observations start over and the old frame's values stay behind
CallAgain ==
    /\ pc = "done"
    /\ Len(history) < MaxCalls - 1
    /\ history' = Append(history, [inputs |-> Inputs, outcome |-> outcome])
    /\ \E inp \in {IF history = <<>> THEN Inputs ELSE history[1].inputs} \cup OtherInputs :
            /\ fn' = inp.fn
            /\ isotherm' = inp.isotherm
            /\ loading_arg' = inp.loading
            /\ loading' = inp.loading
    /\ pc' = "check"
    /\ calls' = <<>>
    /\ warnings' = 0
    /\ steps' = <<>>
    /\ outcome' = Running
    /\ UNCHANGED <<solver, mcall, db, util, lv, pressures, loading_final, whittaker_enth>>

NextPure ==
    \/ Next
    \/ CallAgain

SpecPure == InitPure /\ [][NextPure]_vars

\* ------------------------------------------------------------ numeric inversion

Neg(x) ==
    CASE IsFin(x) -> QNeg(x)
      [] x.k \in {"pow", "xexp"} -> [x EXCEPT !.c = QNeg(@)]
      [] x.k = "nz" -> [x EXCEPT !.s = -@]
      [] x.k = "pinf" -> NInf
      [] x.k = "ninf" -> PInf
      [] OTHER -> NaN
Add(x, y) == Sub(x, Neg(y))
\* numpy.exp
Exp(x) ==
    CASE IsNaN(x) -> NaN
      [] x.k = "pinf" -> PInf
      [] x.k = "ninf" -> Zero
      [] x = Zero -> One
      [] OTHER -> [k |-> "xexp", c |-> One, a |-> x]

MaxIterate == 4
MaxFev == 3
MaxShape == 2

\* fhvst.py 130-134
FHVSTPressure(params, n) ==
    LET nm == params.n_m
        K == params.K
        a1v == params.a1v
        cov == Div(n, nm)
    IN  Mul(Mul(Div(nm, K), Div(cov, Sub(One, cov))),
            Exp(Div(Mul(Pow(a1v, Fin(2, 1)), cov), Add(One, Mul(a1v, cov)))))

\* wvst.py 126-137
WVSTPressure(params, n) ==
    LET n_m == params.n_m
        Lv1 == params.Lv1
        L1v == params.L1v
        cov == Div(n, n_m)
        covX1minLv1 == Mul(Sub(One, Lv1), cov)
        covX1minL1v == Mul(Sub(One, L1v), cov)
        coef == Div(Mul(L1v, Sub(One, covX1minLv1)), Add(L1v, covX1minL1v))
        expcoef == Sub(Neg(Div(Mul(Lv1, covX1minLv1), Sub(One, covX1minLv1))),
                       Div(covX1minL1v, Add(L1v, covX1minL1v)))
    IN  Mul(Mul(Div(Mul(Div(n_m, params.K), cov), Sub(One, cov)), coef), Exp(expcoef))

\* tstoth.py 84-86: one site's term
TothSite(n_m, Kp, t) == Div(Mul(n_m, Kp), Pow(Add(One, Pow(Kp, t)), Div(One, t)))

\* tstoth.py 74-87
TSTothLoading(params, p) ==
    Add(Add(TothSite(params.n_m1, Mul(params.K1, p), params.t1),
            TothSite(params.n_m2, Mul(params.K2, p), params.t2)),
        TothSite(params.n_m3, Mul(params.K3, p), params.t3))

\* tstoth.py 83-87 with the parameters as they are stored: numpy.float64 from a
\* fit, float from a dictionary or a JSON file; 1 / t raises on a float zero
TSTothLoadingOf(model, p) ==
    IF /\ model.numeric = "float"
       /\ Zero \in {model.params.t1, model.params.t2, model.params.t3}
    THEN Raised("ZeroDivisionError")
    ELSE TSTothLoading(model.params, p)

\* the three variants, with parameters inside their default bounds
InvertedModels ==
    {[name |-> "FHVST", calculates |-> "pressure",
      params |-> [n_m |-> Fin(5, 1), K |-> Fin(5, 1), a1v |-> Zero]],
     [name |-> "FHVST", calculates |-> "pressure",
      params |-> [n_m |-> Fin(4, 1), K |-> Fin(4, 1), a1v |-> Fin(-2, 1)]],
     [name |-> "WVST", calculates |-> "pressure",
      params |-> [n_m |-> Fin(5, 1), K |-> Fin(5, 1), L1v |-> One, Lv1 |-> One]],
     [name |-> "TSToth", calculates |-> "loading", numeric |-> "float64",
      params |-> [n_m1 |-> Fin(2, 1), K1 |-> One, t1 |-> One,
                  n_m2 |-> Fin(2, 1), K2 |-> One, t2 |-> One,
                  n_m3 |-> Fin(2, 1), K3 |-> One, t3 |-> One]]}

\* the direction each variant computes directly
ClosedForm(model, x) ==
    CASE x.k = "root" -> x.of
      [] model.name = "FHVST" -> FHVSTPressure(model.params, x)
      [] model.name = "WVST" -> WVSTPressure(model.params, x)
      [] model.name = "TSToth" -> TSTothLoadingOf(model, x)

\* a float or an array of floats: the argument of loading() / pressure()
Scalar(x) == [shape |-> "scalar", v |-> <<x>>]
Array(xs) == [shape |-> "array", v |-> xs]
TargetValues == {Zero, Fin(3, 2), Fin(3, 1), Fin(4, 1), Fin(7, 1)}
\* targets that are values of the closed form: the round trip's first half
ImagePoints == {One, Fin(3, 1)}
\* the components of array targets: a value that is reached, one that is not
\* and one value of the closed form
ArrayValues == {Fin(3, 2), Fin(7, 1)}
ArrayImagePoints == {One}
TargetsOf(model) ==
    {Scalar(x) : x \in TargetValues \cup {ClosedForm(model, p) : p \in ImagePoints}} \cup
    {Array(xs) :
        xs \in SeqsUpTo(ArrayValues \cup {ClosedForm(model, p) : p \in ArrayImagePoints},
                        MaxShape) \ {<<>>}}

\* numpy.zeros_like
zeros_like(a) == [a EXCEPT !.v = [i \in DOMAIN a.v |-> Zero]]

\* fun(x) = closed_form(x) - target, elementwise (fhvst.py 104-105, wvst.py 99-100,
\* tstoth.py 106-107)
fun(model, target, x) ==
    [i \in DOMAIN x.v |-> Sub(ClosedForm(model, x.v[i]), target.v[i])]
IsRoot(model, target, x) == \A i \in DOMAIN x.v : fun(model, target, x)[i] = Zero

\* the denominators of the closed form at x (fhvst.py 134, wvst.py 133-135,
\* tstoth.py 84-86)
Denominators(model, x) ==
    LET q == model.params
    IN  CASE model.name = "FHVST" ->
                <<Sub(One, Div(x, q.n_m)), Add(One, Mul(q.a1v, Div(x, q.n_m)))>>
          [] model.name = "WVST" ->
                <<Sub(One, Div(x, q.n_m)),
                  Sub(One, Mul(Sub(One, q.Lv1), Div(x, q.n_m))),
                  Add(q.L1v, Mul(Sub(One, q.L1v), Div(x, q.n_m)))>>
          [] model.name = "TSToth" ->
                <<Add(One, Pow(Mul(q.K1, x), q.t1)), Add(One, Pow(Mul(q.K2, x), q.t2)),
                  Add(One, Pow(Mul(q.K3, x), q.t3))>>

\* no denominator vanishes between a and b: the closed form is continuous there
SameSigns(ds) ==
    \A d \in ds : \A i \in DOMAIN d :
        {Sign(e[i]) : e \in ds} \in {{1}, {-1}}
ContinuousBetween(model, a, b) == SameSigns({Denominators(model, p) : p \in {a, b}})

\* scipy.optimize.root(method='hybr'): the iterates it may move to, which are the
\* points of a grid and, where fun changes sign between two neighbouring points
\* with the closed form continuous, the root that lies between them
IterateValues == {Fin(i, 1) : i \in 0..MaxIterate}
Neighbours(a) == {b \in IterateValues : Abs(b.n - a.n) = 1}
BracketedRoots(model, t, a) ==
    {[k |-> "root", lo |-> IF b.n < a.n THEN b ELSE a, hi |-> IF b.n < a.n THEN a ELSE b,
      of |-> t] :
        b \in {c \in Neighbours(a) :
                  /\ ContinuousBetween(model, a, c)
                  /\ {Sign(Sub(ClosedForm(model, p), t)) : p \in {a, c}} = {-1, 1}}}
ComponentMoves(model, t, a) ==
    IF a.k = "root" THEN {a}
    ELSE {a} \cup Neighbours(a) \cup BracketedRoots(model, t, a)
\* the arrays other than x whose i-th component is one of moves[i]
Moved(x, moves) ==
    {[x EXCEPT !.v = w] :
        w \in {u \in [DOMAIN x.v -> UNION {moves[i] : i \in DOMAIN x.v}] :
                  /\ u # x.v
                  /\ \A i \in DOMAIN x.v : u[i] \in moves[i]}}
NextIterates(model, target, x) ==
    Moved(x, [i \in DOMAIN x.v |-> ComponentMoves(model, target.v[i], x.v[i])])

InverseResultIgnoringSuccess(opt_res, target) == Returned(opt_res.x)
\* fhvst.py 109-112, wvst.py 104-107, tstoth.py 111-113
InverseResult(opt_res, target) ==
    IF ~opt_res.success
    THEN [k |-> "raised", exc |-> "CalculationError",
          msg |-> [text |-> "Root finding for value {} failed.", value |-> target]]
    ELSE Returned(opt_res.x)

\* no call of the Whittaker functions is in progress
NoWhittaker ==
    /\ loading_arg = NoLoading
    /\ fn = "none"
    /\ isotherm = Unset
    /\ loading = NoLoading
    /\ pc = "idle"
    /\ lv = NoLocals
    /\ pressures = <<>>
    /\ loading_final = <<>>
    /\ whittaker_enth = <<>>
    /\ calls = <<>>
    /\ warnings = 0
    /\ steps = <<>>
    /\ outcome = Running
    /\ history = <<>>

InitSolver ==
    /\ solver \in UNION {{[pc |-> "call", model |-> m, target |-> tg, x0 |-> Unset,
                             x |-> Unset, nfev |-> 0, opt_res |-> Unset,
                             outcome |-> Running] : tg \in TargetsOf(m)} :
                                m \in InvertedModels}
    /\ mcall = NoCall
    /\ db = NoDatabase
    /\ util = NoCall
    /\ NoWhittaker

\* fhvst.py 107, wvst.py 102, tstoth.py 109: the root finder starts at zeros
StartRoot ==
    /\ solver.pc = "call"
    /\ solver' = [solver EXCEPT !.pc = "solve", !.x0 = zeros_like(solver.target),
                                !.x = zeros_like(solver.target), !.nfev = 1]
    /\ UNCHANGED sothers

\* the root finder evaluates fun at another point
StepRoot ==
    /\ solver.pc = "solve"
    /\ ~IsRoot(solver.model, solver.target, solver.x)
    /\ solver.nfev < MaxFev
    /\ \E y \in NextIterates(solver.model, solver.target, solver.x) :
          solver' = [solver EXCEPT !.x = y, !.nfev = @ + 1]
    /\ UNCHANGED sothers

\* the root finder stops on a root and reports success
ConvergeRoot ==
    /\ solver.pc = "solve"
    /\ IsRoot(solver.model, solver.target, solver.x)
    /\ solver' = [solver EXCEPT !.pc = "check",
                                !.opt_res = [success |-> TRUE, x |-> solver.x]]
    /\ UNCHANGED sothers

\* the root finder gives up (no progress, or too many evaluations) and reports
\* failure, with the last iterate as x
GiveUpRoot ==
    /\ solver.pc = "solve"
    /\ ~IsRoot(solver.model, solver.target, solver.x)
    /\ solver' = [solver EXCEPT !.pc = "check",
                                !.opt_res = [success |-> FALSE, x |-> solver.x]]
    /\ UNCHANGED sothers

\* fhvst.py 109-112, wvst.py 104-107, tstoth.py 111-113
FinishRoot ==
    /\ solver.pc = "check"
    /\ solver' = [solver EXCEPT !.pc = "done",
                                !.outcome = InverseResult(solver.opt_res, solver.target)]
    /\ UNCHANGED sothers

NextSolver ==
    \/ StartRoot
    \/ StepRoot
    \/ ConvergeRoot
    \/ GiveUpRoot
    \/ FinishRoot

SpecSolver == InitSolver /\ [][NextSolver]_vars



\* ------------------------------------------------------------ model methods

VariantNames == {"FHVST", "WVST", "TSToth"}

\* fhvst.py 79, wvst.py 72, tstoth.py 43-47
param_names(variant) ==
    CASE variant = "FHVST" -> <<"n_m", "K", "a1v">>
      [] variant = "WVST" -> <<"n_m", "K", "L1v", "Lv1">>
      [] variant = "TSToth" -> <<"n_m1", "K1", "t1", "n_m2", "K2", "t2", "n_m3", "K3", "t3">>

\* fhvst.py 80-84, wvst.py 73-78, tstoth.py 48-58: (lower, upper), aligned with
\* param_names
param_default_bounds(variant) ==
    CASE variant = "FHVST" -> <<<<Zero, PInf>>, <<Zero, PInf>>, <<NInf, PInf>>>>
      [] variant = "WVST" ->
            <<<<Zero, PInf>>, <<Zero, PInf>>, <<NInf, PInf>>, <<NInf, PInf>>>>
      [] variant = "TSToth" -> [i \in 1..9 |-> <<Zero, PInf>>]

\* the interval declared for a parameter name
BoundsOf(variant, name) ==
    LET i == CHOOSE j \in DOMAIN param_names(variant) : param_names(variant)[j] = name
    IN  param_default_bounds(variant)[i]

\* x lies in the closed interval bound
Within(x, bound) == ~IsNaN(x) /\ ~Lt(x, bound[1]) /\ ~Gt(x, bound[2])

\* IsothermBaseModel.initial_guess: the Langmuir estimate (saturation loading,
\* affinity constant) drawn from the data
EstimateValues == {Fin(-3, 1), Zero, Fin(2, 1), Fin(10, 1)}
LangmuirEstimates ==
    {[saturation_loading |-> sl, langmuir_k |-> k] :
        sl \in EstimateValues, k \in EstimateValues}

\* IsothermBaseModel.initial_guess_bounds: every component brought into its interval
Clip(x, bound) ==
    IF Lt(x, bound[1]) THEN bound[1] ELSE IF Gt(x, bound[2]) THEN bound[2] ELSE x
initial_guess_bounds(variant, guess) ==
    [name \in DOMAIN guess |-> Clip(guess[name], BoundsOf(variant, name))]

\* fhvst.py 179, wvst.py 182, tstoth.py 159-169: the guess before the bounds
RawGuess(variant, saturation_loading, langmuir_k) ==
    CASE variant = "FHVST" ->
            [n_m |-> saturation_loading, K |-> langmuir_k, a1v |-> Zero]
      [] variant = "WVST" ->
            [n_m |-> saturation_loading, K |-> langmuir_k, L1v |-> One, Lv1 |-> One]
      [] variant = "TSToth" ->
            [n_m1 |-> Mul(Fin(1, 2), saturation_loading),
             K1 |-> Mul(Fin(1, 5), langmuir_k),
             n_m2 |-> Mul(Fin(1, 2), saturation_loading),
             K2 |-> Mul(Fin(2, 5), langmuir_k),
             n_m3 |-> Mul(Fin(1, 2), saturation_loading),
             K3 |-> Mul(Fin(3, 5), langmuir_k),
             t1 |-> One, t2 |-> One, t3 |-> One]

InitialGuessUnclipped(variant, est) ==
    RawGuess(variant, est.saturation_loading, est.langmuir_k)
\* fhvst.py 178-181, wvst.py 181-184, tstoth.py 157-171
InitialGuess(variant, est) ==
    initial_guess_bounds(variant,
                         RawGuess(variant, est.saturation_loading, est.langmuir_k))

InitialGuessCalls ==
    {[pc |-> "call", op |-> "initial_guess", variant |-> v, estimate |-> est,
      guess |-> Unset, ret |-> Unset] : v \in VariantNames, est \in LangmuirEstimates}

\* initial_guess(pressure, loading)
CallInitialGuess ==
    /\ mcall.pc = "call"
    /\ mcall.op = "initial_guess"
    /\ mcall' = [mcall EXCEPT
                    !.pc = "done",
                    !.guess = RawGuess(mcall.variant, mcall.estimate.saturation_loading,
                                       mcall.estimate.langmuir_k),
                    !.ret = Returned(InitialGuess(mcall.variant, mcall.estimate))]
    /\ UNCHANGED mothers

MaxEvals == 2

\* fitted instances, parameters inside param_default_bounds, each with the
\* arguments its closed form is evaluated at
FHVSTInstances ==
    {[name |-> "FHVST", params |-> [n_m |-> Fin(8, 1), K |-> Fin(8, 1), a1v |-> Zero],
      points |-> {Zero, Fin(2, 1), Fin(3, 1), Fin(5, 1), Fin(6, 1)}],
     [name |-> "FHVST", params |-> [n_m |-> Fin(8, 1), K |-> Fin(8, 1), a1v |-> Fin(-1, 1)],
      points |-> {Zero, Fin(4, 1), Fin(6, 1), Fin(7, 1)}],
     [name |-> "FHVST", params |-> [n_m |-> Fin(8, 1), K |-> Fin(8, 1), a1v |-> Fin(-2, 1)],
      points |-> {Zero, Fin(2, 1), Fin(3, 1), Fin(5, 1), Fin(6, 1)}]}
WVSTInstances ==
    {[name |-> "WVST",
      params |-> [n_m |-> Fin(8, 1), K |-> Fin(8, 1), L1v |-> One, Lv1 |-> One],
      points |-> {Zero, Fin(2, 1), Fin(3, 1), Fin(5, 1), Fin(6, 1)}],
     [name |-> "WVST",
      params |-> [n_m |-> Fin(8, 1), K |-> Fin(8, 1), L1v |-> Fin(-1, 1), Lv1 |-> One],
      points |-> {Zero, Fin(2, 1), Fin(3, 1), Fin(5, 1), Fin(6, 1)}]}
TSTothInstances ==
    {[name |-> "TSToth", numeric |-> "float64",
      params |-> [n_m1 |-> Fin(2, 1), K1 |-> One, t1 |-> One,
                  n_m2 |-> Fin(2, 1), K2 |-> Fin(2, 1), t2 |-> One,
                  n_m3 |-> Fin(2, 1), K3 |-> Fin(3, 1), t3 |-> One],
      points |-> {Zero, One, Fin(2, 1), Fin(5, 1)}],
     [name |-> "TSToth", numeric |-> "float",
      params |-> [n_m1 |-> Fin(4, 1), K1 |-> One, t1 |-> Fin(2, 1),
                  n_m2 |-> Fin(2, 1), K2 |-> One, t2 |-> One,
                  n_m3 |-> Zero, K3 |-> Fin(3, 1), t3 |-> One],
      points |-> {Zero, Fin(3, 4), Fin(4, 3)}]}
\* TSToth instances with one site in use and two of zero capacity
SiteValues == {[n_m |-> Fin(4, 1), K |-> One, t |-> Fin(2, 1)],
               [n_m |-> Fin(2, 1), K |-> One, t |-> One]}
EmptySiteValues == {[n_m |-> Zero, K |-> k, t |-> t] :
                        k \in {Zero, Fin(3, 1)}, t \in {Zero, One, Fin(2, 1)}}
ThreeSites(a, b, c) ==
    [n_m1 |-> a.n_m, K1 |-> a.K, t1 |-> a.t, n_m2 |-> b.n_m, K2 |-> b.K, t2 |-> b.t,
     n_m3 |-> c.n_m, K3 |-> c.K, t3 |-> c.t]
DegenerateInstances ==
    {[name |-> "TSToth", numeric |-> nu, params |-> q,
      points |-> {Zero, Fin(3, 4), Fin(4, 3)}] :
        nu \in {"float", "float64"},
        q \in {ThreeSites(a, b, c) : a \in SiteValues, b, c \in EmptySiteValues}
               \cup {ThreeSites(b, a, c) : a \in SiteValues, b, c \in EmptySiteValues}
               \cup {ThreeSites(b, c, a) : a \in SiteValues, b, c \in EmptySiteValues}}

Instances ==
    FHVSTInstances \cup WVSTInstances \cup TSTothInstances \cup DegenerateInstances

EvaluateCalls ==
    UNION {{[pc |-> "call", op |-> "evaluate", model |-> m, args |-> a, vals |-> <<>>] :
                a \in SeqsUpTo(m.points, MaxEvals) \ {<<>>}} : m \in Instances}

\* FHVST.pressure, WVST.pressure, TSToth.loading on the next argument
EvaluateClosedForm ==
    /\ mcall.pc = "call"
    /\ mcall.op = "evaluate"
    /\ LET x == mcall.args[Len(mcall.vals) + 1]
           vals == Append(mcall.vals, ClosedForm(mcall.model, x))
       IN  mcall' = [mcall EXCEPT !.vals = vals,
                                  !.pc = IF Len(vals) = Len(mcall.args) THEN "done"
                                         ELSE "call"]
    /\ UNCHANGED mothers

\* the class NotImplementedError, as a value
NotImplementedErrorClass == [k |-> "class", name |-> "NotImplementedError"]

\* scipy.integrate.quad(func, a, b): the pair (integral, error estimate)
quad(func, a, b) ==
    <<[k |-> "integral", of |-> func, from |-> a, to |-> b],
      [k |-> "abserr", of |-> func, from |-> a, to |-> b]>>

\* tstoth.py 139: lambda x: self.loading(x) / x
LoadingOverX(model) == [num |-> "self.loading(x)", den |-> "x", self |-> model]

SpreadingPressureRaising(model, pressure) ==
    IF model.name \in {"FHVST", "WVST"}
    THEN [quads |-> <<>>, ret |-> Raised("NotImplementedError")]
    ELSE [quads |-> <<[func |-> LoadingOverX(model), a |-> Zero, b |-> pressure]>>,
          ret |-> Returned(quad(LoadingOverX(model), Zero, pressure)[1])]
\* fhvst.py 160, wvst.py 163, tstoth.py 139: the quad calls made and the outcome
SpreadingPressure(model, pressure) ==
    IF model.name \in {"FHVST", "WVST"}
    THEN [quads |-> <<>>, ret |-> Returned(NotImplementedErrorClass)]
    ELSE [quads |-> <<[func |-> LoadingOverX(model), a |-> Zero, b |-> pressure]>>,
          ret |-> Returned(quad(LoadingOverX(model), Zero, pressure)[1])]

SpreadingPressures == {Zero, One, Fin(5, 2), Fin(-1, 1)}
SpreadingCalls ==
    {[pc |-> "call", op |-> "spreading_pressure", model |-> m, pressure |-> pr,
      quads |-> <<>>, ret |-> Unset] :
        m \in FHVSTInstances \cup WVSTInstances \cup TSTothInstances,
        pr \in SpreadingPressures}

\* spreading_pressure(pressure)
CallSpreadingPressure ==
    /\ mcall.pc = "call"
    /\ mcall.op = "spreading_pressure"
    /\ LET r == SpreadingPressure(mcall.model, mcall.pressure)
       IN  mcall' = [mcall EXCEPT !.pc = "done", !.quads = r.quads, !.ret = r.ret]
    /\ UNCHANGED mothers

ModelCalls == InitialGuessCalls \cup EvaluateCalls \cup SpreadingCalls

InitModels ==
    /\ mcall \in ModelCalls
    /\ solver = NoSolver
    /\ db = NoDatabase
    /\ util = NoCall
    /\ NoWhittaker

NextModels ==
    \/ CallInitialGuess
    \/ EvaluateClosedForm
    \/ CallSpreadingPressure

SpecModels == InitModels /\ [][NextModels]_vars

\* ------------------------------------------------------------ parsing/sqlite.py
\* A database file holds, for each kind of element (adsorbate, material), three
\* tables: <kind>s (id, name), <kind>_properties (<kind>_id, type, value) and
\* <kind>_properties_type (type, unit, description).  Rows are kept in rowid
\* order.  db is [pc, files, lists, n, call, connected, outcome]: the files by
\* path, ADSORBATE_LIST and MATERIAL_LIST, the calls made so far and the last one.

MaxDbCalls == 2
\* line 18: pygaps.data.DATABASE, the internal default database
DATABASE == "pygaps.db"
OtherDatabase == "other.db"
DbPaths == {DATABASE, OtherDatabase}
\* Python's None where a path is expected
PyNone == "<None>"
Kinds == {"adsorbate", "material"}
ElementNames == {"a", "b"}
Value(v) == [k |-> "value", v |-> v]
\* the properties of an Adsorbate or Material, in dict order; a value is a
\* scalar or a list
FullProperties ==
    <<[type |-> "p", value |-> ListOf(<<2, 3>>)], [type |-> "q", value |-> Value(4)]>>
FewerProperties == <<[type |-> "p", value |-> Value(1)]>>
PropertyDicts == {<<>>, FewerProperties, FullProperties}
Element(name, properties) == [name |-> name, properties |-> properties]
DbElements == {Element(nm, ps) : nm \in ElementNames, ps \in PropertyDicts}

EmptyTables == [elements |-> <<>>, properties |-> <<>>, types |-> {}]

\* lines 253-254 / 590-591: a value that is not a list, set or tuple is wrapped
ValuesOf(val) == IF val.k = "list" THEN val.v ELSE <<val.v>>

\* lines 245-263 / 582-600: one INSERT per value of each property, in order
RECURSIVE PropertyRows(_, _)
PropertyRows(id, properties) ==
    IF properties = <<>> THEN <<>>
    ELSE LET prop == Head(properties)
             val == ValuesOf(prop.value)
         IN  [i \in 1..Len(val) |-> [elem_id |-> id, type |-> prop.type, value |-> val[i]]]
                \o PropertyRows(id, Tail(properties))

\* lines 127-157: _delete_by_id raises IntegrityError when no row has the id,
\* and otherwise deletes every row that has it
delete_by_id(rows, element_id) ==
    IF \A i \in 1..Len(rows) : rows[i].elem_id # element_id
    THEN [rows |-> rows, ret |-> Raised("IntegrityError")]
    ELSE [rows |-> SelectSeq(rows, LAMBDA r : r.elem_id # element_id),
          ret |-> Returned(PyNone)]

\* lines 267 / 604, `adsorbate in ADSORBATE_LIST`: the elements compare by name
InList(list, element) == \E i \in 1..Len(list) : list[i].name = element.name
\* lines 268 / 605, ADSORBATE_LIST.remove(adsorbate.name): the first entry equal
\* to the name
RemoveByName(list, name) ==
    LET i == CHOOSE j \in 1..Len(list) :
                /\ list[j].name = name
                /\ \A h \in 1..(j - 1) : list[h].name # name
    IN  SubSeq(list, 1, i - 1) \o SubSeq(list, i + 1, Len(list))

\* The schema gives <kind>s.name a UNIQUE constraint and <kind>_properties.type
\* a foreign key into <kind>_properties_type, enforced by line 48; a violated
\* constraint is sqlite3.IntegrityError.
\* lines 163-273 (adsorbate_to_db) and 498-611 (material_to_db), run on the
\* cursor's tables T and the module list: the tables as the call leaves them,
\* the list, and what the call returned or raised
element_to_db(T, list, element, overwrite, autoinsert_properties) ==
    LET ids == SelectSeq(T.elements, LAMBDA r : r.name = element.name)
        failed(tables) == [tables |-> tables, list |-> list, ret |-> Raised("IntegrityError")]
    IN  IF overwrite /\ ids = <<>> THEN failed(T)
        ELSE IF ~overwrite /\ ids # <<>> THEN failed(T)
        ELSE
        LET id == IF overwrite THEN ids[1].id ELSE Len(T.elements) + 1
            T1 == IF overwrite
                  THEN [T EXCEPT !.properties = delete_by_id(@, id).rows]
                  ELSE [T EXCEPT !.elements = Append(@, [id |-> id, name |-> element.name])]
            properties == element.properties
            T2 == IF autoinsert_properties
                  THEN [T1 EXCEPT !.types = @ \cup {properties[i].type : i \in 1..Len(properties)}]
                  ELSE T1
            rows == PropertyRows(id, properties)
        IN  IF \E i \in 1..Len(rows) : rows[i].type \notin T2.types THEN failed(T2)
            ELSE [tables |-> [T2 EXCEPT !.properties = @ \o rows],
                  list |-> Append(IF overwrite /\ InList(list, element)
                                  THEN RemoveByName(list, element.name) ELSE list,
                                  element),
                  ret |-> Returned(PyNone)]

HasKey(params, type) == \E i \in 1..Len(params) : params[i].type = type
\* lines 322-327: a repeated type turns the adsorbate's parameter into a list
AdsorbateParam(params, row) ==
    IF HasKey(params, row.type)
    THEN [i \in 1..Len(params) |->
            IF params[i].type = row.type
            THEN [type |-> row.type, value |-> ListOf(ValuesOf(params[i].value) \o <<row.value>>)]
            ELSE params[i]]
    ELSE Append(params, [type |-> row.type, value |-> Value(row.value)])
\* line 657: material_params.update({row[0]: row[1] for row in cursor}), where a
\* repeated type keeps its last value
MaterialParam(params, row) ==
    IF HasKey(params, row.type)
    THEN [i \in 1..Len(params) |->
            IF params[i].type = row.type
            THEN [type |-> row.type, value |-> Value(row.value)]
            ELSE params[i]]
    ELSE Append(params, [type |-> row.type, value |-> Value(row.value)])
RECURSIVE BuildParams(_, _, _)
BuildParams(kind, params, rows) ==
    IF rows = <<>> THEN params
    ELSE BuildParams(kind,
                     IF kind = "adsorbate" THEN AdsorbateParam(params, Head(rows))
                     ELSE MaterialParam(params, Head(rows)),
                     Tail(rows))
\* lines 276-336 (adsorbates_from_db) and 614-666 (materials_from_db)
elements_from_db(T, kind) ==
    [i \in 1..Len(T.elements) |->
        Element(T.elements[i].name,
                BuildParams(kind, <<>>,
                            SelectSeq(T.properties,
                                      LAMBDA r : r.elem_id = T.elements[i].id)))]

\* a call: the function, the element to store (for the *_to_db functions), the
\* positional arguments given after it and the keyword arguments
ToDbNames == {"adsorbate_to_db", "material_to_db"}
FromDbNames == {"adsorbates_from_db", "materials_from_db"}
KindOf(op) ==
    IF op \in {"adsorbate_to_db", "adsorbates_from_db"} THEN "adsorbate" ELSE "material"
\* autoinsert_properties is left at its default, True (lines 167 / 502)
AutoInsertValues == {TRUE}
ToDbCalls(op) ==
    UNION {{[op |-> op, element |-> el, args |-> <<>>,
             kwargs |-> [overwrite |-> ow, autoinsert_properties |-> ai]],
            [op |-> op, element |-> el, args |-> <<>>,
             kwargs |-> [overwrite |-> ow, autoinsert_properties |-> ai,
                         db_path |-> OtherDatabase]],
            [op |-> op, element |-> el, args |-> <<OtherDatabase>>,
             kwargs |-> [overwrite |-> ow, autoinsert_properties |-> ai]]} :
                el \in DbElements, ow \in BOOLEAN, ai \in AutoInsertValues}
FromDbCalls(op) ==
    {[op |-> op, args |-> <<>>, kwargs |-> [verbose |-> FALSE]],
     [op |-> op, args |-> <<>>, kwargs |-> [verbose |-> FALSE, db_path |-> OtherDatabase]],
     [op |-> op, args |-> <<OtherDatabase>>, kwargs |-> [verbose |-> FALSE]]}

\* the db_path parameter as the function's signature binds it: the positional
\* argument, else the keyword argument, else the default None
BoundDbPath(call) ==
    IF call.args # <<>> THEN call.args[1]
    ELSE IF "db_path" \in DOMAIN call.kwargs THEN call.kwargs.db_path
    ELSE PyNone
\* the file the caller named: "If none is specified, internal database is used"
NamedPath(call) == IF BoundDbPath(call) = PyNone THEN DATABASE ELSE BoundDbPath(call)
\* lines 40-42: db_path = kwargs.get('db_path', DATABASE); db_path if db_path
\* else DATABASE; sqlite3.connect(db_path)
ConnectedPath(call) ==
    LET db_path == IF "db_path" \in DOMAIN call.kwargs THEN call.kwargs.db_path ELSE DATABASE
    IN  IF db_path \notin {PyNone, ""} THEN db_path ELSE DATABASE

\* line 49: ret = func(*args, **kwargs, cursor=cursor)
RunOnCursor(call, T, list) ==
    IF call.op \in ToDbNames
    THEN element_to_db(T, list, call.element, call.kwargs.overwrite,
                       call.kwargs.autoinsert_properties)
    ELSE [tables |-> T, list |-> list, ret |-> Returned(elements_from_db(T, KindOf(call.op)))]

NeverRollback(ret) == FALSE

\* lines 51-60: IntegrityError and InterfaceError roll the transaction back and
\* are re-raised as ParsingError; otherwise the transaction is committed
Rollback(ret) == ret.k = "raised" /\ ret.exc \in {"IntegrityError", "InterfaceError"}
\* lines 31-67: the wrapper around one call, on the files and the module lists
with_connection(call, files, lists) ==
    LET path == ConnectedPath(call)
        kind == KindOf(call.op)
        res == RunOnCursor(call, files[path][kind], lists[kind])
    IN  [files |-> IF Rollback(res.ret) THEN files
                   ELSE [files EXCEPT ![path][kind] = res.tables],
         lists |-> [lists EXCEPT ![kind] = res.list],
         connected |-> path,
         outcome |-> IF Rollback(res.ret) THEN Raised("ParsingError") ELSE res.ret]

\* the tables after uploading the elements one by one
RECURSIVE Populated(_, _)
Populated(T, elements) ==
    IF elements = <<>> THEN T
    ELSE Populated(element_to_db(T, <<>>, Head(elements), FALSE, TRUE).tables, Tail(elements))
InitialTables ==
    {EmptyTables,
     Populated(EmptyTables, <<Element("a", FullProperties), Element("b", FewerProperties)>>),
     Populated(EmptyTables, <<Element("b", FullProperties)>>)}
NoDbCall == [op |-> "none"]

\* pygaps.data fills ADSORBATE_LIST and MATERIAL_LIST from the internal database
\* when the package is imported
InitDb ==
    /\ \E internal \in InitialTables, other \in InitialTables :
        db = [pc |-> "ready",
              files |-> [p \in DbPaths |->
                            [kd \in Kinds |-> IF p = DATABASE THEN internal ELSE other]],
              lists |-> [kd \in Kinds |-> elements_from_db(internal, kd)],
              n |-> 0,
              call |-> NoDbCall,
              connected |-> PyNone,
              outcome |-> Running]
    /\ solver = NoSolver
    /\ mcall = NoCall
    /\ util = NoCall
    /\ NoWhittaker

DbCall(call) ==
    LET done == with_connection(call, db.files, db.lists)
    IN  db' = [db EXCEPT !.files = done.files, !.lists = done.lists, !.n = @ + 1,
                         !.call = call, !.connected = done.connected,
                         !.outcome = done.outcome]

AdsorbateToDb ==
    /\ db.pc = "ready"
    /\ db.n < MaxDbCalls
    /\ \E call \in ToDbCalls("adsorbate_to_db") : DbCall(call)
    /\ UNCHANGED dothers

AdsorbatesFromDb ==
    /\ db.pc = "ready"
    /\ db.n < MaxDbCalls
    /\ \E call \in FromDbCalls("adsorbates_from_db") : DbCall(call)
    /\ UNCHANGED dothers

MaterialToDb ==
    /\ db.pc = "ready"
    /\ db.n < MaxDbCalls
    /\ \E call \in ToDbCalls("material_to_db") : DbCall(call)
    /\ UNCHANGED dothers

MaterialsFromDb ==
    /\ db.pc = "ready"
    /\ db.n < MaxDbCalls
    /\ \E call \in FromDbCalls("materials_from_db") : DbCall(call)
    /\ UNCHANGED dothers

NextDb ==
    \/ AdsorbateToDb
    \/ AdsorbatesFromDb
    \/ MaterialToDb
    \/ MaterialsFromDb

SpecDb == InitDb /\ [][NextDb]_vars

\* ------------------------------------------------------------ parsing/sqlite.py: transactions
\* The same database, call by call and step by step: db is [pc, files, lists, n,
\* call, conn, work, before, ret, events, nested, dirty, outcome].  files are the
\* committed contents by path, conn the path of the open connection, work the
\* contents its transaction sees, before the files when the call began, ret
\* what the wrapped function returned or raised, events what was done to the
\* connection, nested the calls made with the cursor, dirty whether the function
\* left changes in the transaction.  A file holds the tables of both kinds of
\* element and isotherms (id, material, adsorbate), isotherm_properties and
\* isotherm_data; the schema makes isotherms.id unique and isotherms.material
\* and isotherms.adsorbate foreign keys to the names of the element tables.

MaxTxCalls == 2

EmptyFile ==
    [adsorbate |-> EmptyTables, material |-> EmptyTables,
     isotherms |-> <<>>, isotherm_properties |-> <<>>, isotherm_data |-> <<>>]
Names(T) == {T.elements[i].name : i \in DOMAIN T.elements}

TheMaterial == Element("a", FewerProperties)
TheAdsorbate == Element("a", <<>>)
Bool(b) == [k |-> "bool", v |-> b]
\* the parameters of an isotherm beyond the required ones; a list cannot be
\* bound to a statement
FlagParams == <<[type |-> "t", value |-> Bool(TRUE)]>>
ListParams == <<[type |-> "t", value |-> Bool(TRUE)], [type |-> "u", value |-> ListOf(<<1>>)],
                [type |-> "w", value |-> Value(1)]>>
DbIsotherms ==
    {[iso_id |-> "i1", iso_type |-> "pointisotherm", material |-> TheMaterial,
      adsorbate |-> TheAdsorbate, params |-> FlagParams],
     [iso_id |-> "i2", iso_type |-> "pointisotherm", material |-> TheMaterial,
      adsorbate |-> TheAdsorbate, params |-> ListParams],
     [iso_id |-> "i3", iso_type |-> "unknown", material |-> TheMaterial,
      adsorbate |-> TheAdsorbate, params |-> FlagParams]}

\* binding a value of an unsupported type is sqlite3.InterfaceError up to
\* Python 3.10 and sqlite3.ProgrammingError from 3.11
BindingErrors == {"InterfaceError", "ProgrammingError"}

\* lines 911-912: a bool is stored as 'TRUE' or 'FALSE'
StoredValue(val) == IF val.k = "bool" THEN (IF val.v THEN "TRUE" ELSE "FALSE") ELSE val.v
Bindable(val) == val.k # "list"
RECURSIVE BindablePrefix(_)
BindablePrefix(params) ==
    IF params = <<>> \/ ~Bindable(Head(params).value) THEN <<>>
    ELSE <<Head(params)>> \o BindablePrefix(Tail(params))

\* lines 868-975 of isotherm_to_db, on the contents F the cursor sees
upload_isotherm(F, iso, binding_error) ==
    IF iso.iso_type \notin {"pointisotherm", "modelisotherm", "isotherm"}
    THEN [file |-> F, ret |-> Raised("ParsingError")]
    ELSE IF \/ \E i \in DOMAIN F.isotherms : F.isotherms[i].id = iso.iso_id
            \/ iso.material.name \notin Names(F.material)
            \/ iso.adsorbate.name \notin Names(F.adsorbate)
    THEN [file |-> F, ret |-> Raised("IntegrityError")]
    ELSE LET bound == BindablePrefix(iso.params)
             F1 == [F EXCEPT !.isotherms = Append(@, [id |-> iso.iso_id,
                                                       material |-> iso.material.name,
                                                       adsorbate |-> iso.adsorbate.name]),
                             !.isotherm_properties = @ \o
                                [i \in DOMAIN bound |->
                                    [iso_id |-> iso.iso_id, type |-> bound[i].type,
                                     value |-> StoredValue(bound[i].value)]]]
         IN  IF Len(bound) < Len(iso.params)
             THEN [file |-> F1, ret |-> Raised(binding_error)]
             ELSE [file |-> [F1 EXCEPT !.isotherm_data = @ \o
                                <<[iso_id |-> iso.iso_id, type |-> "pressure"],
                                  [iso_id |-> iso.iso_id, type |-> "loading"]>>],
                   ret |-> Returned(PyNone)]

\* lines 339-390 (adsorbate_delete_db) and 669-720 (material_delete_db): the
\* property rows are deleted first, then the element's row, which the foreign
\* keys of isotherms can refuse
element_delete_db(F, list, kind, element) ==
    LET T == F[kind]
        ids == SelectSeq(T.elements, LAMBDA r : r.name = element.name)
        failed(file) == [file |-> file, list |-> list, ret |-> Raised("IntegrityError")]
    IN  IF ids = <<>> THEN failed(F)
        ELSE LET T1 == [T EXCEPT !.properties =
                            SelectSeq(@, LAMBDA r : r.elem_id # ids[1].id)]
             IN  IF \E i \in DOMAIN F.isotherms : F.isotherms[i][kind] = element.name
                 THEN failed([F EXCEPT ![kind] = T1])
                 ELSE [file |-> [F EXCEPT ![kind] =
                                    [T1 EXCEPT !.elements =
                                        SelectSeq(@, LAMBDA r : r.id # ids[1].id)]],
                       list |-> IF InList(list, element)
                                THEN RemoveByName(list, element.name) ELSE list,
                       ret |-> Returned(PyNone)]

AlwaysConnects(kwargs) == TRUE

\* lines 37-38: a call that is given a cursor runs on it
OpensConnection(kwargs) == "cursor" \notin DOMAIN kwargs

KeptAfterClose(committed, work) == work

\* line 63: closing a connection drops what its transaction has not committed
AfterClose(committed, work) == committed

DeleteNames == {"adsorbate_delete_db", "material_delete_db"}
TxKindOf(op) ==
    IF op \in {"adsorbate_to_db", "adsorbate_delete_db"} THEN "adsorbate" ELSE "material"
TheElement(kind) == IF kind = "adsorbate" THEN TheAdsorbate ELSE TheMaterial
PathKwargs == {[verbose |-> FALSE], [verbose |-> FALSE, db_path |-> OtherDatabase]}
IsothermCalls ==
    {[op |-> "isotherm_to_db", isotherm |-> iso, args |-> <<>>, kwargs |-> kw,
      autoinsert_material |-> am, autoinsert_adsorbate |-> aa] :
        iso \in DbIsotherms, kw \in PathKwargs, am \in BOOLEAN, aa \in BOOLEAN}
ElementCalls(ops) ==
    {[op |-> op, element |-> TheElement(TxKindOf(op)), args |-> <<>>, kwargs |-> kw] :
        op \in ops, kw \in PathKwargs}

InitTx ==
    /\ \E files \in [DbPaths -> {[EmptyFile EXCEPT !.adsorbate = ta, !.material = tm] :
                                    ta \in {EmptyTables, Populated(EmptyTables, <<TheAdsorbate>>)},
                                    tm \in {EmptyTables, Populated(EmptyTables, <<TheMaterial>>)}}] :
        db = [pc |-> "ready", files |-> files,
              lists |-> [kd \in Kinds |-> elements_from_db(files[DATABASE][kd], kd)],
              n |-> 0, call |-> NoDbCall, conn |-> PyNone, work |-> EmptyFile,
              before |-> files, ret |-> Running, events |-> <<>>, nested |-> <<>>,
              dirty |-> FALSE, outcome |-> Running]
    /\ solver = NoSolver
    /\ mcall = NoCall
    /\ util = NoCall
    /\ NoWhittaker

\* lines 40-49: a top-level call connects, and the wrapped function starts
Connect(call, first) ==
    /\ db.pc = "ready"
    /\ db.n < MaxTxCalls
    /\ db' = [db EXCEPT !.pc = first, !.call = call, !.conn = ConnectedPath(call),
                        !.work = db.files[ConnectedPath(call)], !.before = db.files,
                        !.ret = Running, !.events = <<"connect">>, !.nested = <<>>,
                        !.dirty = FALSE, !.outcome = Running]
    /\ UNCHANGED dothers

CallIsothermToDb == \E call \in IsothermCalls : Connect(call, "autoinsert_material")
CallElementToDb == \E call \in ElementCalls(ToDbNames) : Connect(call, "to_db")
CallElementDeleteDb == \E call \in ElementCalls(DeleteNames) : Connect(call, "delete_db")

\* the wrapped function has ended
Ended(ret, work) ==
    [db EXCEPT !.pc = "end", !.ret = ret, !.work = work,
               !.dirty = work # db.files[db.conn]]

\* lines 861-866: material_to_db / adsorbate_to_db called with db_path and the
\* cursor when the element is not in the module's list
Autoinsert(kind, wanted, element, then) ==
    LET kwargs == [db_path |-> BoundDbPath(db.call), cursor |-> "cursor"]
        nested_call == [op |-> kind \o "_to_db", kwargs |-> kwargs]
    IN  IF ~wanted \/ InList(db.lists[kind], element)
        THEN db' = [db EXCEPT !.pc = then]
        ELSE IF OpensConnection(kwargs)
        THEN LET path == ConnectedPath(nested_call)
                 res == element_to_db(db.files[path][kind], db.lists[kind], element, FALSE, TRUE)
                 ok == ~Rollback(res.ret)
             IN  db' = [db EXCEPT
                         !.files[path][kind] = IF ok THEN res.tables ELSE @,
                         !.lists[kind] = res.list,
                         !.nested = Append(@, [op |-> nested_call.op,
                                               events |-> <<"connect",
                                                            IF ok THEN "commit" ELSE "rollback",
                                                            "close">>]),
                         !.pc = IF ok THEN then ELSE "end",
                         !.ret = IF ok THEN @ ELSE Raised("ParsingError"),
                         !.dirty = db.work # db.files[db.conn]]
        ELSE LET res == element_to_db(db.work[kind], db.lists[kind], element, FALSE, TRUE)
                 work == [db.work EXCEPT ![kind] = res.tables]
             IN  db' = IF res.ret.k = "raised"
                       THEN [Ended(res.ret, work) EXCEPT
                                !.nested = Append(@, [op |-> nested_call.op, events |-> <<>>])]
                       ELSE [db EXCEPT !.work = work, !.lists[kind] = res.list, !.pc = then,
                                !.nested = Append(@, [op |-> nested_call.op, events |-> <<>>])]

AutoinsertMaterial ==
    /\ db.pc = "autoinsert_material"
    /\ Autoinsert("material", db.call.autoinsert_material, db.call.isotherm.material,
                  "autoinsert_adsorbate")
    /\ UNCHANGED dothers

AutoinsertAdsorbate ==
    /\ db.pc = "autoinsert_adsorbate"
    /\ Autoinsert("adsorbate", db.call.autoinsert_adsorbate, db.call.isotherm.adsorbate,
                  "upload")
    /\ UNCHANGED dothers

UploadIsotherm ==
    /\ db.pc = "upload"
    /\ \E binding_error \in BindingErrors :
        LET res == upload_isotherm(db.work, db.call.isotherm, binding_error)
        IN  db' = Ended(res.ret, res.file)
    /\ UNCHANGED dothers

\* adsorbate_to_db and material_to_db as top-level calls, with their defaults
UploadElement ==
    /\ db.pc = "to_db"
    /\ LET kind == TxKindOf(db.call.op)
           res == element_to_db(db.work[kind], db.lists[kind], db.call.element, FALSE, TRUE)
       IN  db' = [Ended(res.ret, [db.work EXCEPT ![kind] = res.tables])
                    EXCEPT !.lists[kind] = res.list]
    /\ UNCHANGED dothers

DeleteElement ==
    /\ db.pc = "delete_db"
    /\ LET kind == TxKindOf(db.call.op)
           res == element_delete_db(db.work, db.lists[kind], kind, db.call.element)
       IN  db' = [Ended(res.ret, res.file) EXCEPT !.lists[kind] = res.list]
    /\ UNCHANGED dothers

\* lines 51-57: conn.rollback(); raise ParsingError(err) from err
RollbackTx ==
    /\ db.pc = "end"
    /\ Rollback(db.ret)
    /\ db' = [db EXCEPT !.pc = "close", !.work = db.files[db.conn],
                        !.events = Append(@, "rollback"),
                        !.outcome = Raised("ParsingError")]
    /\ UNCHANGED dothers

\* lines 59-60: else: conn.commit()
CommitTx ==
    /\ db.pc = "end"
    /\ db.ret.k = "returned"
    /\ db' = [db EXCEPT !.pc = "close", !.files[db.conn] = db.work,
                        !.events = Append(@, "commit"),
                        !.outcome = db.ret]
    /\ UNCHANGED dothers

\* lines 62-65: finally: conn.close(), also on the exceptions that no handler
\* names; then the result is returned or the exception leaves the wrapper
CloseTx ==
    /\ \/ db.pc = "close"
       \/ db.pc = "end" /\ db.ret.k = "raised" /\ ~Rollback(db.ret)
    /\ db' = [db EXCEPT !.pc = "ready", !.n = @ + 1, !.conn = PyNone,
                        !.files[db.conn] = AfterClose(@, db.work),
                        !.work = EmptyFile,
                        !.events = Append(@, "close"),
                        !.outcome = IF db.pc = "close" THEN @ ELSE db.ret]
    /\ UNCHANGED dothers

NextTx ==
    \/ CallIsothermToDb
    \/ CallElementToDb
    \/ CallElementDeleteDb
    \/ AutoinsertMaterial
    \/ AutoinsertAdsorbate
    \/ UploadIsotherm
    \/ UploadElement
    \/ DeleteElement
    \/ RollbackTx
    \/ CommitTx
    \/ CloseTx

SpecTx == InitTx /\ [][NextTx]_vars

\* ------------------------------------------------------------ utilities/python_utilities.py

MaxItems == 4
MaxGroup == 3
BatchSize == 100
Items == {1, 2}
RowCounts == {0, 99, 100, 101}

DeleteAt(s, k) == [j \in 1 .. Len(s) - 1 |-> IF j < k THEN s[j] ELSE s[j + 1]]

SeparateIterators(n) == [j \in 1 .. n |-> j]

\* [iter(iterable)] * n: n references to one and the same iterator
SharedIterators(n) == [j \in 1 .. n |-> 1]

\* grouped(iterable, n), and the loop of isotherms_from_db over
\* grouped(alldata, 100)
GroupedCalls ==
    {[f |-> "grouped", iterable |-> it, n |-> n] :
        it \in SeqsUpTo(Items, MaxItems), n \in 1 .. MaxGroup}
    \cup {[f |-> "isotherms_from_db", iterable |-> [k \in 1 .. c |-> k], n |-> BatchSize] :
        c \in RowCounts}

\* zip_varlen(*iterables): iter() of an iterator is that iterator; pos[id] counts
\* the items iterator id has handed out, i and val are those of the running
\* _one_pass, groups the tuples handed to the consumer, processed the items
\* the consumer's inner loop went through
grouped(call) ==
    [pc |-> "pass", call |-> call,
     iters |-> SharedIterators(call.n),
     pos |-> [id \in 1 .. call.n |-> 0],
     i |-> 0, val |-> <<>>, groups |-> <<>>, processed |-> <<>>]

InitGrouped ==
    /\ \E call \in GroupedCalls : util = grouped(call)
    /\ solver = NoSolver
    /\ mcall = NoCall
    /\ db = NoDatabase
    /\ NoWhittaker

\* _one_pass: yield next(iters[i]); i += 1
OnePassYield ==
    /\ util.pc = "pass"
    /\ util.i < Len(util.iters)
    /\ LET id == util.iters[util.i + 1]
       IN  /\ util.pos[id] < Len(util.call.iterable)
           /\ util' = [util EXCEPT !.val = Append(@, util.call.iterable[util.pos[id] + 1]),
                                   !.pos[id] = @ + 1,
                                   !.i = @ + 1]
    /\ UNCHANGED uothers

\* _one_pass: except StopIteration: del iters[i]
OnePassStop ==
    /\ util.pc = "pass"
    /\ util.i < Len(util.iters)
    /\ util.pos[util.iters[util.i + 1]] >= Len(util.call.iterable)
    /\ util' = [util EXCEPT !.iters = DeleteAt(@, util.i + 1)]
    /\ UNCHANGED uothers

\* zip_varlen: the tuple of one pass is yielded if it is not empty, and the
\* consumer goes through it; an empty tuple ends the generator
ZipVarlenNext ==
    /\ util.pc = "pass"
    /\ util.i >= Len(util.iters)
    /\ util' = IF util.val # <<>>
               THEN [util EXCEPT !.groups = Append(@, util.val),
                                 !.processed = @ \o util.val,
                                 !.val = <<>>,
                                 !.i = 0]
               ELSE [util EXCEPT !.pc = "done"]
    /\ UNCHANGED uothers

NextGrouped == OnePassYield \/ OnePassStop \/ ZipVarlenNext

\* the generator and its consumer are one sequential loop: a step that can be
\* taken is taken
SpecGrouped == InitGrouped /\ [][NextGrouped]_vars /\ WF_vars(NextGrouped)

\* ---- deep_merge ----

MaxDepth == 2
Keys == {"x", "y"}
Leaves == {1, 2}

\* a dict is the sequence of its items in insertion order; a value is a leaf
\* or a dict (an abc.Mapping)
Leaf(v) == [k |-> "leaf", v |-> v]
Dict(items) == [k |-> "dict", v |-> items]
Item(key, val) == [key |-> key, val |-> val]
KeysOf(items) == {items[j].key : j \in DOMAIN items}
IndexOf(items, key) ==
    IF key \in KeysOf(items) THEN CHOOSE j \in DOMAIN items : items[j].key = key ELSE 0
Get(items, key) == items[IndexOf(items, key)].val

\* dicts of nesting depth up to d, with up to two keys; orders is the set of
\* insertion orders of two keys
RECURSIVE DictsUpTo(_, _)
DictsUpTo(d, orders) ==
    LET vals == {Leaf(v) : v \in Leaves}
                \cup (IF d > 1 THEN {Dict(m) : m \in DictsUpTo(d - 1, orders)} ELSE {})
    IN  {<<>>}
        \cup {<<Item(key, val)>> : key \in Keys, val \in vals}
        \cup UNION {{<<Item(o[1], IF o[1] = "x" THEN val ELSE Leaf(v)),
                       Item(o[2], IF o[2] = "x" THEN val ELSE Leaf(v))>> :
                        val \in vals, v \in Leaves} : o \in orders}

\* == of two Python values: dicts are equal when they hold equal values under
\* the same keys, in any order
RECURSIVE PyEq(_, _)
PyEq(u, w) ==
    IF u.k = "dict" /\ w.k = "dict"
    THEN /\ KeysOf(u.v) = KeysOf(w.v)
         /\ \A key \in KeysOf(u.v) : PyEq(Get(u.v, key), Get(w.v, key))
    ELSE u = w

LastOf(path) == IF Len(path) = 0 THEN "" ELSE path[Len(path)]

\* '.'.join(path)
RECURSIVE Join(_)
Join(path) ==
    IF Len(path) = 0 THEN ""
    ELSE IF Len(path) = 1 THEN path[1]
    ELSE path[1] \o "." \o Join(Tail(path))

Conflict(path) == "Conflict at " \o Join(path)

\* deep_merge(a, b, path, update): items is what is left of b.items(); the
\* result is a as the call leaves it and the exception message, if one was raised
RECURSIVE deep_merge(_, _, _, _)
deep_merge(a, items, path, update) ==
    IF items = <<>> THEN [a |-> a, exc |-> PyNone]
    ELSE LET key == Head(items).key
             val == Head(items).val
             j == IndexOf(a, key)
         IN  IF j = 0 THEN deep_merge(Append(a, Item(key, val)), Tail(items), path, update)
             ELSE IF a[j].val.k = "dict" /\ val.k = "dict"
             THEN LET sub == deep_merge(a[j].val.v, val.v, Append(path, key), update)
                      merged == [a EXCEPT ![j].val.v = sub.a]
                  IN  IF sub.exc # PyNone THEN [a |-> merged, exc |-> sub.exc]
                      ELSE deep_merge(merged, Tail(items), path, update)
             ELSE IF PyEq(a[j].val, val) THEN deep_merge(a, Tail(items), path, update)
             ELSE IF update THEN deep_merge([a EXCEPT ![j].val = val], Tail(items), path, update)
             ELSE [a |-> a, exc |-> Conflict(Append(path, key))]

DeepMergeCalls ==
    {[f |-> "deep_merge", a |-> a, b |-> b, update |-> update] :
        a \in DictsUpTo(MaxDepth, {<<"x", "y">>}),
        b \in DictsUpTo(MaxDepth, {<<"x", "y">>, <<"y", "x">>}),
        update \in BOOLEAN}

InitDeepMerge ==
    /\ \E call \in DeepMergeCalls : util = [pc |-> "call", call |-> call]
    /\ solver = NoSolver
    /\ mcall = NoCall
    /\ db = NoDatabase
    /\ NoWhittaker

\* path is None on the outermost call
DeepMerge ==
    /\ util.pc = "call"
    /\ LET ret == deep_merge(util.call.a, util.call.b, <<>>, util.call.update)
       IN  util' = [pc |-> "done", call |-> util.call, a |-> ret.a, msg |-> ret.exc,
                    outcome |-> IF ret.exc = PyNone THEN Returned(ret.a)
                                ELSE Raised("Exception")]
    /\ UNCHANGED uothers

NextDeepMerge == DeepMerge

SpecDeepMerge == InitDeepMerge /\ [][NextDeepMerge]_vars

\* ------------------------------------------------------------ parsing/json.py

MaxTokens == 4
\* a JSON text is the sequence of its tokens; K is a member name with its colon
Tokens == {"{", "}", "[", "]", ",", "K", "1"}
NoParse == [ok |-> FALSE]

\* dict.__setitem__: an existing key keeps its place
SetItem(items, key, val) ==
    IF key \in KeysOf(items) THEN [items EXCEPT ![IndexOf(items, key)].val = val]
    ELSE Append(items, Item(key, val))

\* dict.update(other)
RECURSIVE Update(_, _)
Update(items, other) ==
    IF other = <<>> THEN items
    ELSE Update(SetItem(items, Head(other).key, Head(other).val), Tail(other))

\* the JSON decoder: one value read from the front of ts, or the members of an
\* array or object up to its closing bracket.  A result is the value and the
\* tokens after it, or NoParse (json.JSONDecodeError)
RECURSIVE ParseValue(_), ParseMembers(_, _, _)
ParseValue(ts) ==
    IF ts = <<>> THEN NoParse
    ELSE IF Head(ts) = "1" THEN [ok |-> TRUE, val |-> Leaf(1), rest |-> Tail(ts)]
    ELSE IF Head(ts) \in {"[", "{"} THEN
        IF Len(ts) >= 2 /\ ts[2] = (IF Head(ts) = "[" THEN "]" ELSE "}")
        THEN [ok |-> TRUE,
              val |-> IF Head(ts) = "[" THEN ListOf(<<>>) ELSE Dict(<<>>),
              rest |-> Tail(Tail(ts))]
        ELSE ParseMembers(Tail(ts), Head(ts), <<>>)
    ELSE NoParse

ParseMembers(ts, open, acc) ==
    LET named == open = "{"
        body == IF named /\ ts # <<>> THEN Tail(ts) ELSE ts
        item == ParseValue(body)
    IN  IF named /\ (ts = <<>> \/ Head(ts) # "K") THEN NoParse
        ELSE IF ~item.ok \/ item.rest = <<>> THEN NoParse
        ELSE LET more == IF named THEN SetItem(acc, "k", item.val)
                         ELSE Append(acc, item.val)
             IN  IF Head(item.rest) = "," THEN ParseMembers(Tail(item.rest), open, more)
                 ELSE IF Head(item.rest) = (IF named THEN "}" ELSE "]")
                 THEN [ok |-> TRUE,
                       val |-> IF named THEN Dict(more) ELSE ListOf(more),
                       rest |-> Tail(item.rest)]
                 ELSE NoParse

\* json.loads(s) and json.load(f): one value and nothing after it
json_loads(ts) ==
    LET parsed == ParseValue(ts)
    IN  IF parsed.ok /\ parsed.rest = <<>> THEN Returned(parsed.val)
        ELSE Raised("JSONDecodeError")

\* what open(str_or_path) finds: no file or a directory under that name (both
\* OSError), or a readable file with its text; no file has the empty name
OSErrors == {"FileNotFoundError", "IsADirectoryError"}
FileTexts == {<<>>, <<"{", "}">>, <<"{", "K", "1">>}
IsothermParameters == {<<>>, <<Item("k", Leaf(2))>>}

FromJsonCalls ==
    {[f |-> "isotherm_from_json", str_or_path |-> s, file |-> file,
      isotherm_parameters |-> ps] :
        s \in SeqsUpTo(Tokens, MaxTokens),
        file \in {Raised(e) : e \in OSErrors} \cup {Returned(t) : t \in FileTexts},
        ps \in IsothermParameters}

InitFromJson ==
    /\ \E call \in FromJsonCalls :
        /\ call.str_or_path = <<>> => call.file.k = "raised"
        /\ util = [pc |-> "file", call |-> call, outcome |-> Running]
    /\ solver = NoSolver
    /\ mcall = NoCall
    /\ db = NoDatabase
    /\ NoWhittaker

\* with open(str_or_path) as f: raw_dict = json.load(f); only OSError is handled
ReadFile ==
    /\ util.pc = "file"
    /\ util' = IF util.call.file.k = "raised"
               THEN [util EXCEPT !.pc = "text"]
               ELSE LET loaded == json_loads(util.call.file.result)
                    IN  IF loaded.k = "raised"
                        THEN [util EXCEPT !.pc = "done", !.outcome = loaded]
                        ELSE [pc |-> "update", call |-> util.call, outcome |-> Running,
                              raw_dict |-> loaded.result, read |-> "file"]
    /\ UNCHANGED uothers

\* except OSError: raw_dict = json.loads(str_or_path); any exception becomes
\* ParsingError
ReadText ==
    /\ util.pc = "text"
    /\ LET loaded == json_loads(util.call.str_or_path)
       IN  util' = IF loaded.k = "raised"
                   THEN [util EXCEPT !.pc = "done", !.outcome = Raised("ParsingError")]
                   ELSE [pc |-> "update", call |-> util.call, outcome |-> Running,
                         raw_dict |-> loaded.result, read |-> "text"]
    /\ UNCHANGED uothers

\* raw_dict.update(isotherm_parameters); an isotherm is then constructed from
\* raw_dict by classes outside this model
UpdateParameters ==
    /\ util.pc = "update"
    /\ util' = IF util.raw_dict.k # "dict"
               THEN [util EXCEPT !.pc = "done", !.outcome = Raised("AttributeError")]
               ELSE [util EXCEPT !.pc = "construct",
                                 !.raw_dict.v = Update(@, util.call.isotherm_parameters)]
    /\ UNCHANGED uothers

NextFromJson == ReadFile \/ ReadText \/ UpdateParameters

SpecFromJson == InitFromJson /\ [][NextFromJson]_vars

\* ------------------------------------------------------------ claims: Whittaker

LangmuirOrToth == isotherm.model.name \in {"Langmuir", "Toth"}
CriticalPressure == isotherm.adsorbate.p_critical
TriplePressure == isotherm.adsorbate.p_triple
KeptSteps == SelectSeq(steps, LAMBDA s : s.kept)
Called(f) == \E k \in DOMAIN calls : calls[k].f = f

\* C1: on a model that is neither Langmuir nor Toth both functions end with
\* ParameterError, and until then no parameter was read, no adsorbate callback
\* invoked, no pressure looked up and no local computed.
C1_ParameterErrorBeforeAnyWork ==
    ~LangmuirOrToth =>
        /\ calls = <<>>
        /\ steps = <<>>
        /\ lv = NoLocals
        /\ pc \in {"check", "done"}
        /\ pc = "done" => outcome = Raised("ParameterError")

C1_Witness ==
    /\ isotherm.model.name = "Sips"
    /\ fn = "whittaker_enthalpy"
    /\ loading_arg # NoLoading
    /\ outcome = Raised("ParameterError")

\* C2: when saturation_pressure raises CalculationError the computation does not
\* raise: one warning, p_sat = p_critical * (T / t_critical)^2, the loop runs over
\* every loading; t_critical is called only on that path.
C2_PseudoSaturationNoRaise ==
    LET pseudo == Mul(CriticalPressure,
                      Pow(Div(isotherm.temperature, isotherm.adsorbate.t_critical),
                          Fin(2, 1)))
    IN  /\ Called("t_critical") => ~isotherm.adsorbate.sat.ok
        /\ (LangmuirOrToth /\ ~isotherm.adsorbate.sat.ok) =>
              /\ outcome.k # "raised"
              /\ pc \in {"enter", "pressures"} => (warnings = 1 /\ lv.p_sat = pseudo)
              /\ pc \in {"loop", "done"} =>
                    /\ warnings = 1
                    /\ lv.p_sat = Div(pseudo, Fin(1000, 1))
                    /\ Called("t_critical")
              /\ pc = "done" => Len(steps) = Len(loading.v)

\* C3: a loading whose pressure is above the critical pressure or not finite (NaN,
\* +inf, -inf) is left out, a loading whose pressure lies between the triple and
\* the critical pressure stays, and the loop never stops early.
C3_OutOfRangeDiscarded ==
    /\ \A k \in DOMAIN steps :
          LET s == steps[k]
          IN  /\ (Gt(s.found, CriticalPressure) \/ s.found \in {NaN, PInf, NInf})
                    => ~s.kept
              /\ (IsFin(s.found) /\ ~Lt(s.found, TriplePressure)
                    /\ ~Gt(s.found, CriticalPressure)) => s.kept
    /\ Len(loading_final) = Len(KeptSteps)
    /\ steps # <<>> => (pc = "loop" \/ Len(steps) = Len(loading.v))

\* C4: the two output lists have the same length, at most that of the input; the
\* retained loadings are the input loadings at the kept positions, in order; and
\* the i-th enthalpy is the one computed from the i-th retained loading.
C4_ParallelOutputs ==
    /\ Len(loading_final) = Len(whittaker_enth)
    /\ Len(loading_final) = Len(KeptSteps)
    /\ loading_final # <<>> => Len(loading_final) <= Len(loading.v)
    /\ \A j \in DOMAIN KeptSteps :
          /\ loading_final[j] = loading.v[KeptSteps[j].i]
          /\ whittaker_enth[j] =
                Appended(fn, IsostericJoule(isotherm.temperature, lv.first_bracket,
                                            SecondBracket(loading_final[j], lv.n_m, lv.t),
                                            LambdaJoule(KeptSteps[j].used)))
          /\ \A h \in DOMAIN KeptSteps : h < j => KeptSteps[h].i < KeptSteps[j].i
    /\ outcome.k = "returned" =>
          /\ outcome.result.loading = loading_final
          /\ outcome.result.enthalpy_sorption = whittaker_enth

C4_Witness ==
    /\ outcome.k = "returned"
    /\ Len(steps) = 2
    /\ ~steps[1].kept
    /\ steps[2].kept
    /\ Len(outcome.result.loading) = 1

\* C5: a loading whose pressure is under the triple-point pressure is kept, with
\* the enthalpy of vaporisation taken at exactly the triple-point pressure.
C5_BelowTripleClamped ==
    \A k \in DOMAIN steps :
        LET s == steps[k]
        IN  (IsFin(s.found) /\ Lt(s.found, TriplePressure)) =>
                /\ s.kept
                /\ s.used = TriplePressure
                /\ \E c \in DOMAIN calls :
                      calls[c] = [f |-> "enthalpy_vaporisation", press |-> TriplePressure]


\* C7: on a Langmuir or Toth isotherm the computation raises nothing and ends by
\* returning a mapping with exactly the keys 'loading' and 'enthalpy_sorption'.
C7_ReturnsLoadingAndEnthalpy ==
    LangmuirOrToth =>
        /\ outcome.k # "raised"
        /\ pc = "done" =>
              /\ outcome.k = "returned"
              /\ DOMAIN outcome.result = {"loading", "enthalpy_sorption"}

\* the Whittaker equation as the claim writes it, for loading n and pressure p
WhittakerEquation(n, p) ==
    LET T == isotherm.temperature
        ads == isotherm.adsorbate
        n_m == isotherm.model.params.n_m
        K == isotherm.model.params.K
        t == IF isotherm.model.name = "Langmuir" THEN One ELSE isotherm.model.params.t
        b == Pow(K, QNeg(t))
        theta == Div(n, n_m)
        p_sat == IF ads.sat.ok THEN ads.sat.p
                 ELSE Mul(ads.p_critical, Pow(Div(T, ads.t_critical), Fin(2, 1)))
        p_sat_kPa == Div(p_sat, Fin(1000, 1))
        ratio == Div(Pow(theta, t), Sub(One, Pow(theta, t)))
        inner == Mul(Div(p_sat_kPa, Pow(b, Div(One, t))),
                     Pow(ratio, Div(Sub(t, One), t)))
        joule == AddRT(AddJoule(ScaledLog(T, inner),
                                Mul(Fin(1000, 1), enthalpy_vaporisation(p))), T)
    IN  DivEnergy(joule, 1000)

C9_DefaultGrid ==
    (loading_arg = NoLoading /\ LangmuirOrToth /\ pc # "check") =>
        LET lo == isotherm.model.loading_range[1]
            hi == isotherm.model.loading_range[2]
        IN  /\ loading.k = "list"
            /\ Len(loading.v) = 100
            /\ loading.v[1] = lo
            /\ loading.v[100] = hi
            /\ \A i \in 1..99 :
                  Sub(loading.v[i + 1], loading.v[i]) = Div(Sub(hi, lo), Fin(99, 1))
            /\ pc = "done" => (outcome.k = "returned" /\ Len(steps) = 100)

C6_NonConvergenceRaises ==
    /\ solver.pc # "call" =>
          /\ solver.x0.shape = solver.target.shape
          /\ DOMAIN solver.x0.v = DOMAIN solver.target.v
          /\ \A i \in DOMAIN solver.x0.v : solver.x0.v[i] = Zero
    /\ solver.pc = "done" =>
          IF solver.opt_res.success
          THEN solver.outcome = Returned(solver.opt_res.x)
          ELSE /\ solver.outcome.k = "raised"
               /\ solver.outcome.exc = "CalculationError"
               /\ solver.outcome.msg.value = solver.target

C6_Witness ==
    /\ solver.pc = "done"
    /\ solver.model.name = "TSToth"
    /\ solver.target.shape = "array"
    /\ Len(solver.target.v) = 2
    /\ ~solver.opt_res.success
    /\ solver.opt_res.x # zeros_like(solver.target)
    /\ solver.outcome.k = "raised"


\* ------------------------------------------------------------ claims: model methods

\* C11: every value of the mapping initial_guess returns lies in the interval
\* param_default_bounds declares for its name, and the mapping has exactly the
\* variant's parameter names.
C11_GuessWithinBounds ==
    (mcall.pc = "done" /\ mcall.op = "initial_guess") =>
        /\ mcall.ret.k = "returned"
        /\ DOMAIN mcall.ret.result = Range(param_names(mcall.variant))
        /\ \A name \in DOMAIN mcall.ret.result :
              Within(mcall.ret.result[name], BoundsOf(mcall.variant, name))

C11_Witness ==
    /\ mcall.pc = "done"
    /\ mcall.op = "initial_guess"
    /\ mcall.variant = "TSToth"
    /\ Lt(mcall.guess.n_m1, Zero)
    /\ Lt(mcall.guess.K3, Zero)
    /\ mcall.ret.result.n_m1 = Zero
    /\ mcall.ret.result.K3 = Zero

\* the arguments on which the closed form is defined as an isotherm
InDomain(model, x) ==
    model.name \in {"FHVST", "WVST"} => Lt(x, model.params.n_m)

\* C12: when the numeric inverse returns a value, the closed form maps it back to
\* the target, and when the target is itself the closed form's value at x, the
\* value returned is x.
C12_RoundTrip ==
    solver.outcome.k = "returned" =>
        \A i \in DOMAIN solver.target.v :
            /\ ClosedForm(solver.model, solver.outcome.result.v[i]) = solver.target.v[i]
            /\ \A x \in IterateValues :
                  (InDomain(solver.model, x)
                   /\ ClosedForm(solver.model, x) = solver.target.v[i])
                      => solver.outcome.result.v[i] = x

\* C12 on the instances whose closed form is monotone
C12_RoundTripWhereMonotone ==
    (solver.model.name = "FHVST" => ~Lt(solver.model.params.a1v, Fin(-1, 1)))
        => C12_RoundTrip

\* C13: with the parameters fixed, the closed form is monotone: TSToth's loading
\* does not decrease with the pressure, and the pressure of FHVST and WVST does
\* not decrease with the loading below n_m.
C13_Monotone ==
    mcall.op = "evaluate" =>
        \A i, j \in DOMAIN mcall.vals :
            (/\ mcall.vals[i].k # "raised"
             /\ mcall.vals[j].k # "raised"
             /\ ~Gt(mcall.args[i], mcall.args[j])
             /\ mcall.model.name \in {"FHVST", "WVST"} =>
                    Lt(mcall.args[j], mcall.model.params.n_m))
                => ~Gt(mcall.vals[i], mcall.vals[j])

\* C13 on every instance but the FHVST one with a1v < -1 and the WVST one with
\* L1v < 0
C13_MonotoneElsewhere ==
    (/\ mcall.op = "evaluate"
     /\ mcall.model.name = "FHVST" => ~Lt(mcall.model.params.a1v, Fin(-1, 1))
     /\ mcall.model.name = "WVST" => ~Lt(mcall.model.params.L1v, Zero))
        => \A i, j \in DOMAIN mcall.vals :
              (/\ mcall.vals[i].k # "raised"
               /\ mcall.vals[j].k # "raised"
               /\ ~Gt(mcall.args[i], mcall.args[j])) => ~Gt(mcall.vals[i], mcall.vals[j])

\* the single-site Toth loading n_m*K*p / (1 + (K*p)^t)^(1/t)
SingleSiteToth(site, p) ==
    Div(Mul(Mul(site.n_m, site.K), p),
        Pow(Sub(Pow(Mul(site.K, p), site.t), Fin(-1, 1)), Div(One, site.t)))

\* the sites of a TSToth parameter set
SitesOf(q) ==
    <<[n_m |-> q.n_m1, K |-> q.K1, t |-> q.t1], [n_m |-> q.n_m2, K |-> q.K2, t |-> q.t2],
      [n_m |-> q.n_m3, K |-> q.K3, t |-> q.t3]>>

\* C14: a TSToth model with two sites of zero capacity gives, at every pressure,
\* the loading of the single-site Toth model of the remaining site, whatever
\* the K and t of the two empty sites.
C14_ReducesToSingleSite ==
    (mcall.op = "evaluate" /\ mcall.model.name = "TSToth") =>
        \A s \in 1..3 :
            (\A o \in 1..3 \ {s} : SitesOf(mcall.model.params)[o].n_m = Zero) =>
                \A i \in DOMAIN mcall.vals :
                    mcall.vals[i] = SingleSiteToth(SitesOf(mcall.model.params)[s],
                                                   mcall.args[i])

\* C14 when no exponent is zero or the parameters are numpy.float64
C14_ReducesUnlessFloatZero ==
    (/\ mcall.op = "evaluate"
     /\ mcall.model.name = "TSToth"
     /\ (mcall.model.numeric = "float64"
            \/ \A o \in 1..3 : SitesOf(mcall.model.params)[o].t # Zero))
        => C14_ReducesToSingleSite

C16_EvenSplitGeometricAffinities ==
    (mcall.op = "initial_guess" /\ mcall.variant = "TSToth" /\ mcall.pc = "done") =>
        LET g == mcall.guess
        IN  /\ g.n_m1 = g.n_m2
            /\ g.n_m2 = g.n_m3
            /\ Add(Add(g.n_m1, g.n_m2), g.n_m3) = mcall.estimate.saturation_loading
            /\ Gt(mcall.estimate.langmuir_k, Zero) =>
                  /\ Lt(g.K1, g.K2)
                  /\ Lt(g.K2, g.K3)
                  /\ Div(g.K2, g.K1) = Div(g.K3, g.K2)

\* what TSToth's guess does satisfy: equal capacities and increasing affinities
C16_EqualCapacitiesIncreasingAffinities ==
    (mcall.op = "initial_guess" /\ mcall.variant = "TSToth" /\ mcall.pc = "done") =>
        LET g == mcall.guess
        IN  /\ g.n_m1 = g.n_m2
            /\ g.n_m2 = g.n_m3
            /\ Gt(mcall.estimate.langmuir_k, Zero) => (Lt(g.K1, g.K2) /\ Lt(g.K2, g.K3))


\* the calls that have ended so far: the earlier ones and the present one once done
CompletedCalls ==
    {history[i] : i \in 1..Len(history)} \cup
    (IF pc = "done" THEN {[inputs |-> Inputs, outcome |-> outcome]} ELSE {})

\* C17: the Whittaker computation is a pure transform: while a call runs the
\* isotherm (its model parameters included) and the caller's loading sequence
\* stay as they were passed, the list the code iterates stays the caller's
\* list, and any two calls of one process with equal inputs end with equal
\* outcomes, whatever calls came before or in between.
C17_PureTransform ==
    /\ [](\A c1 \in CompletedCalls : \A c2 \in CompletedCalls :
            c1.inputs = c2.inputs => c1.outcome = c2.outcome)
    /\ [](loading_arg # NoLoading => loading = loading_arg)
    /\ [][pc # "done" => (isotherm' = isotherm /\ loading_arg' = loading_arg /\ fn' = fn)]_vars
\* a third call repeats the first after a call on another isotherm, and returns
\* retained points
C17_Witness ==
    /\ Len(history) = 2
    /\ history[1].inputs = Inputs
    /\ history[2].inputs # Inputs
    /\ fn = "enthalpy_sorption_whittaker"
    /\ pc = "done"
    /\ outcome.k = "returned"
    /\ Len(outcome.result.loading) = 2
    /\ history[2].outcome.k = "returned"
    /\ Len(history[2].outcome.result.loading) = 1


\* ------------------------------------------------------------ claims: database

\* the step is a database call
IsDbCall == db'.n # db.n
RowsNamed(T, name) == SelectSeq(T.elements, LAMBDA r : r.name = name)
RowsOf(T, id) == SelectSeq(T.properties, LAMBDA r : r.elem_id = id)
\* a call addressed path: it connected to it, read its tables or wrote them,
\* and left every other file alone
Addressed(call, path) ==
    /\ db'.connected = path
    /\ \A p \in DbPaths \ {path} : db'.files[p] = db.files[p]
    /\ call.op \in FromDbNames =>
            db'.outcome = Returned(elements_from_db(db.files[path][KindOf(call.op)],
                                                    KindOf(call.op)))
\* an overwrite of a name that has no row in the tables of path fails with
\* ParsingError and changes neither the files nor the module lists
OverwriteMissingFails(call, path) ==
    (/\ call.op \in ToDbNames
     /\ call.kwargs.overwrite
     /\ RowsNamed(db.files[path][KindOf(call.op)], call.element.name) = <<>>)
    => (/\ db'.outcome = Raised("ParsingError")
        /\ db'.files = db.files
        /\ db'.lists = db.lists)
\* after a successful overwrite the tables of path hold the element under its
\* old id with exactly the supplied properties, and every other row is as before
OverwriteReplaces(call, path) ==
    (/\ call.op \in ToDbNames
     /\ call.kwargs.overwrite
     /\ db'.outcome.k = "returned")
    => LET kind == KindOf(call.op)
           before == db.files[path][kind]
           after == db'.files[path][kind]
           ids == RowsNamed(after, call.element.name)
       IN  /\ ids # <<>>
           /\ after.elements = before.elements
           /\ RowsOf(after, ids[1].id) = PropertyRows(ids[1].id, call.element.properties)
           /\ \A i \in 1..Len(before.elements) :
                before.elements[i].id # ids[1].id =>
                    RowsOf(after, before.elements[i].id) = RowsOf(before, before.elements[i].id)
           /\ \A p \in DbPaths : \A kd \in Kinds :
                (p # path \/ kd # kind) => db'.files[p][kd] = db.files[p][kd]

\* C18: every database operation reads and writes the file named by its db_path
\* argument, and the internal default database only when none is given, whether
\* db_path is passed by keyword or positionally.
C18_NamedDatabase ==
    [][IsDbCall => Addressed(db'.call, NamedPath(db'.call))]_vars
\* the same for calls that pass db_path by keyword or leave it out
C18_NamedByKeyword ==
    [][(IsDbCall /\ db'.call.args = <<>>) => Addressed(db'.call, NamedPath(db'.call))]_vars

\* C19: adsorbate_to_db and material_to_db with overwrite=True for a name that
\* has no row in the database named by the call fail with ParsingError and leave
\* the database tables and ADSORBATE_LIST / MATERIAL_LIST as they were.
C19_OverwriteMissingFails ==
    [][IsDbCall => OverwriteMissingFails(db'.call, NamedPath(db'.call))]_vars
\* the same about the database the call connected to
C19_OverwriteMissingInConnected ==
    [][IsDbCall => OverwriteMissingFails(db'.call, ConnectedPath(db'.call))]_vars

\* C20: after a successful adsorbate_to_db or material_to_db with overwrite=True
\* the property rows stored for the element in the database named by the call
\* are exactly the supplied object's properties, the element's row id is
\* unchanged and no other element's rows are touched.
C20_OverwriteReplacesProperties ==
    [][IsDbCall => OverwriteReplaces(db'.call, NamedPath(db'.call))]_vars
\* the same about the database the call connected to
C20_OverwriteReplacesInConnected ==
    [][IsDbCall => OverwriteReplaces(db'.call, ConnectedPath(db'.call))]_vars

\* ------------------------------------------------------------ claims: utilities

RECURSIVE Concat(_)
Concat(ss) == IF ss = <<>> THEN <<>> ELSE Head(ss) \o Concat(Tail(ss))

IsPrefix(s, t) == Len(s) <= Len(t) /\ s = SubSeq(t, 1, Len(s))

GroupsWellFormed ==
    /\ \A k \in DOMAIN util.groups :
        /\ util.groups[k] # <<>>
        /\ Len(util.groups[k]) <= util.call.n
    /\ \A k \in 1 .. Len(util.groups) - 1 : Len(util.groups[k]) = util.call.n
    /\ IsPrefix(Concat(util.groups) \o util.val, util.call.iterable)
    /\ util.processed = Concat(util.groups)
    /\ util.pc = "done" => Concat(util.groups) = util.call.iterable

\* C22: grouped(iterable, n) on a finite iterable with n >= 1 terminates; the
\* tuples it yields are non-empty, of at most n items, all but the last of
\* exactly n, and their concatenation is the iterable in its order; the loop of
\* isotherms_from_db goes through every selected row exactly once, in batches
\* of at most 100.
C22_GroupedPartitions == [](GroupsWellFormed) /\ <>(util.pc = "done")

C22_Witness ==
    /\ util.pc = "done"
    /\ util.call.f = "isotherms_from_db"
    /\ Len(util.groups) = 2
    /\ Len(util.groups[1]) = BatchSize
    /\ Len(util.groups[2]) = 1
    /\ util.processed = util.call.iterable

\* r is a merged with b: keys of a alone keep their value, keys of b alone
\* have b's, under a key of both two dicts are merged and anything else is b's
RECURSIVE IsMergeOf(_, _, _)
IsMergeOf(r, a, b) ==
    /\ KeysOf(r) = KeysOf(a) \cup KeysOf(b)
    /\ Len(r) = Cardinality(KeysOf(r))
    /\ \A key \in KeysOf(r) :
        IF key \notin KeysOf(b) THEN Get(r, key) = Get(a, key)
        ELSE IF key \notin KeysOf(a) THEN Get(r, key) = Get(b, key)
        ELSE IF Get(a, key).k = "dict" /\ Get(b, key).k = "dict"
        THEN /\ Get(r, key).k = "dict"
             /\ IsMergeOf(Get(r, key).v, Get(a, key).v, Get(b, key).v)
        ELSE Get(r, key) = Get(b, key)

\* the dotted paths of the keys of both a and b whose values differ and are not
\* two dicts
RECURSIVE ConflictPaths(_, _, _)
ConflictPaths(a, b, path) ==
    UNION {IF Get(a, key).k = "dict" /\ Get(b, key).k = "dict"
           THEN ConflictPaths(Get(a, key).v, Get(b, key).v, path \o key \o ".")
           ELSE IF Get(a, key) # Get(b, key) THEN {path \o key} ELSE {} :
           key \in KeysOf(a) \cap KeysOf(b)}

\* C23: deep_merge(a, b) with update=True returns a, with the keys of a alone
\* unchanged, the keys of b alone added with b's value, and under a key of both
\* two mappings merged recursively and any other value replaced by b's; with
\* update=False differing values that are not two mappings raise an exception
\* naming the dotted path of such a key, and without them nothing is raised.
C23_DeepMerge ==
    (util.pc = "done" /\ util.call.f = "deep_merge") =>
        LET conflicts == ConflictPaths(util.call.a, util.call.b, "")
        IN  IF util.call.update \/ conflicts = {}
            THEN /\ util.outcome = Returned(util.a)
                 /\ IsMergeOf(util.a, util.call.a, util.call.b)
            ELSE /\ util.outcome = Raised("Exception")
                 /\ \E p \in conflicts : util.msg = "Conflict at " \o p

C23_Witness ==
    /\ util.pc = "done"
    /\ util.call.f = "deep_merge"
    /\ ~util.call.update
    /\ util.call.a = <<Item("x", Dict(<<Item("x", Leaf(1)), Item("y", Leaf(1))>>))>>
    /\ util.call.b = <<Item("x", Dict(<<Item("x", Leaf(1)), Item("y", Leaf(2))>>))>>
    /\ util.outcome = Raised("Exception")
    /\ util.msg = "Conflict at x.y"

ValidJson(ts) == json_loads(ts).k = "returned"
FromJsonDone == util.pc \in {"done", "update", "construct"}

\* where raw_dict has to come from, and what has to be raised, when neither
\* source holds a JSON value; opened says whether a file was found
ReadsFileThenText(opened) ==
    /\ util.pc \in {"update", "construct"} =>
        util.read = (IF util.call.file.k = "returned" THEN "file" ELSE "text")
    /\ (~(opened /\ ValidJson(util.call.file.result)) /\ ~ValidJson(util.call.str_or_path)) =>
        /\ util.pc \in {"file", "text", "done"}
        /\ util.pc = "done" => util.outcome = Raised("ParsingError")

\* C24: isotherm_from_json reads str_or_path as a file first and parses it as
\* JSON text only if no such file can be opened; when the input is neither a
\* readable file of valid JSON nor valid JSON text, ParsingError is raised and
\* no other exception.
C24_ParsingErrorOnly ==
    util.call.f = "isotherm_from_json" =>
        ReadsFileThenText(util.call.file.k = "returned")
\* the same for the inputs that name no file that can be opened
C24_ParsingErrorWithoutFile ==
    (util.call.f = "isotherm_from_json" /\ util.call.file.k = "raised") =>
        ReadsFileThenText(FALSE)
C24_WithoutFileWitness ==
    /\ util.call.f = "isotherm_from_json"
    /\ util.call.file = Raised("FileNotFoundError")
    /\ util.call.str_or_path = <<"{", "K", "1">>
    /\ util.pc = "done"
    /\ util.outcome = Raised("ParsingError")

\* ------------------------------------------------------------ claims: transactions

\* the isotherm's element of a kind has a row in the connected database, as the
\* transaction sees it, once its autoinsert step is over
RowPresent(kind) == db.call.isotherm[kind].name \in Names(db.work[kind])
AfterAutoinsert(kind) ==
    /\ db.pc \in (IF kind = "material" THEN {"autoinsert_adsorbate", "upload"} ELSE {"upload"})
    /\ db.call["autoinsert_" \o kind]

\* C21: with autoinsert_material (autoinsert_adsorbate) true, isotherm_to_db
\* inserts the isotherm's material (adsorbate) into the target database whenever
\* it has no row there, so that after any earlier calls the isotherm's own row is
\* never uploaded with its material or adsorbate row missing.
C21_AutoinsertedWhenMissing ==
    \A kind \in Kinds : AfterAutoinsert(kind) => RowPresent(kind)
\* the same, for the elements that are not in ADSORBATE_LIST / MATERIAL_LIST
C21_AutoinsertedWhenNotListed ==
    \A kind \in Kinds :
        AfterAutoinsert(kind) =>
            (RowPresent(kind) \/ InList(db.lists[kind], db.call.isotherm[kind]))
C21_NotListedWitness ==
    /\ db.pc = "upload"
    /\ db.call.autoinsert_material
    /\ db.call.autoinsert_adsorbate
    /\ Len(db.nested) = 2
    /\ \A kind \in Kinds :
        /\ RowPresent(kind)
        /\ db.call.isotherm[kind].name \notin Names(db.files[db.conn][kind])

TxDone == db.pc = "ready" /\ db.n > 0
Count(e) == Cardinality({i \in DOMAIN db.events : db.events[i] = e})

\* C25: a top-level call of a wrapped operation that returns is committed
\* exactly once and then closed; one that raises sqlite3.IntegrityError or
\* sqlite3.InterfaceError is rolled back, closed and ends with ParsingError; on
\* every path the connection is closed exactly once, and no call both commits
\* and rolls back.
C25_CommitOrRollbackThenClose ==
    /\ Count("connect") <= 1 /\ Count("commit") <= 1 /\ Count("close") <= 1
    /\ Count("commit") + Count("rollback") <= 1
    /\ Count("close") = 1 => db.pc = "ready"
    /\ TxDone =>
        /\ Count("close") = 1
        /\ db.events[Len(db.events)] = "close"
        /\ db.conn = PyNone
        /\ db.ret.k = "returned" =>
            /\ db.events = <<"connect", "commit", "close">>
            /\ db.outcome = db.ret
        /\ (db.ret.k = "raised" /\ db.ret.exc \in {"IntegrityError", "InterfaceError"}) =>
            /\ db.events = <<"connect", "rollback", "close">>
            /\ db.outcome = Raised("ParsingError")

C25_Witness ==
    /\ TxDone
    /\ db.call.op = "isotherm_to_db"
    /\ db.ret = Raised("InterfaceError")
    /\ db.events = <<"connect", "rollback", "close">>
    /\ db.outcome = Raised("ParsingError")

NestedKind(k) == IF db.nested[k].op = "material_to_db" THEN "material" ELSE "adsorbate"

\* C26: material_to_db and adsorbate_to_db called with the cursor of
\* isotherm_to_db open no connection and do not commit, roll back or close; the
\* rows they insert are in the database file only once the outermost call has
\* committed, and are gone when it has not.
C26_NestedOnCursor ==
    /\ \A k \in DOMAIN db.nested : db.nested[k].events = <<>>
    /\ db.nested # <<>> =>
        /\ Count("commit") = 0 => db.files = db.before
        /\ Count("commit") = 1 =>
            \A k \in DOMAIN db.nested :
                db.call.isotherm[NestedKind(k)].name
                    \in Names(db.files[ConnectedPath(db.call)][NestedKind(k)])

C26_Witness ==
    /\ TxDone
    /\ Len(db.nested) = 2
    /\ db.events = <<"connect", "commit", "close">>
    /\ \A kind \in Kinds :
        /\ db.call.isotherm[kind].name \notin Names(db.before[ConnectedPath(db.call)][kind])
        /\ db.call.isotherm[kind].name \in Names(db.files[ConnectedPath(db.call)][kind])

\* C27: a top-level database operation that ends with an exception of any type
\* commits none of its row changes, those of nested autoinserts and of the
\* property rows deleted before a refused delete included: the database files
\* are as before the call.
C27_FailedCallLeavesDatabase ==
    (TxDone /\ db.outcome.k = "raised") =>
        /\ db.files = db.before
        /\ Count("commit") = 0

C27_Witness ==
    /\ TxDone
    /\ db.call.op = "material_delete_db"
    /\ db.ret = Raised("IntegrityError")
    /\ db.outcome = Raised("ParsingError")
    /\ db.dirty
    /\ db.before[ConnectedPath(db.call)].isotherms # <<>>
    /\ db.files = db.before

=============================================================================
